---- MODULE Spec2Model ----
(***************************************************************************)
(* Frame synchronisation and ray-tracing pipeline construction of R2R2.    *)
(*                                                                         *)
(* Spec      : the per-frame cycle of VulkanContext (frame_begin,          *)
(*             frame_end, frame_present) as driven by Renderer::draw_frame *)
(*             (path "raster") and by RayTracingPipeline::begin_draw /     *)
(*             draw / end_draw (path "raytrace"), against a device queue   *)
(*             that finishes submitted work asynchronously.                *)
(* SpecBuild : RayTracingPipelineBuilder::build, i.e. the acceleration     *)
(*             structure builds and the shader binding table.              *)
(***************************************************************************)
EXTENDS Integers, Sequences, FiniteSets, TLC

VARIABLES
    path,             \* which renderer drives the context: "raster" | "raytrace"
    pc,               \* position of the renderer inside its frame
    frames_count,     \* VulkanContext.frames_count
    frame_index,      \* VulkanContext.frame_index
    image_index,      \* VulkanContext.image_index
    fences,           \* CommandBuffers.fences: slot -> signaled?
    command_buffers,  \* CommandBuffers.command_buffers: slot -> lifecycle state
    acquired,         \* swapchain images the application holds (acquired, not yet presented)
    gpuq,             \* queue submissions whose execution has not completed, oldest first
    ev,               \* Vulkan calls issued since the current frame started, in order
    waits,            \* per slot: successful fence waits in the current cycle of frames_count frames
    resets,           \* per slot: fence resets in the current cycle
    submits,          \* per slot: frame submissions in the current cycle
    failed_at,        \* the call whose error ended the program ("none" while running)
    bpc,              \* position inside RayTracingPipelineBuilder::build
    cmds,             \* commands recorded into single-use command buffers, in order
    cb_states,        \* single-use command buffers: id -> lifecycle state
    submitted,        \* ids of the single-use command buffers handed to queue_submit, in order
    as_live,          \* acceleration-structure handles created and not destroyed
    bottom_level_as,  \* handles owned by the bottom_level_as vector (AccelerationStructure values)
    top_level_as,     \* handle owned by the top-level AccelerationStructure value (0: none)
    handle_reads,     \* bottom-level handle retrievals: which handle, at which command-stream length
    build_fail,       \* the failing step of the AccelerationStructureBuilder::build that returned Err
    failed_as,        \* handle created by the build call that returned Err (0: none created)
    pipeline,         \* the ray-tracing Pipeline built last
    sbt,              \* the ShaderBindingTable built last
    prog_id_size,     \* shader_group_handle_size reported by the device
    as_alloc,         \* the buffers and device calls of the AccelerationStructureBuilder::build that ran last
    cpc,              \* position inside VulkanContext::create_buffer
    memory_types,     \* the physical device's memory types: index -> property flags
    buffers,          \* Buffer values created: id -> usage, memory, content, destroyed?
    arg,              \* the arguments of the running create_buffer call
    pending,          \* copy commands submitted to the queue and not yet executed
    found,            \* the last find_memory_type call: its inputs and its result
    create_error,     \* the error create_buffer returned ("none": no error)
    spc,              \* position inside VulkanContextBuilder::build
    reported,         \* what the driver reported to the builder that ran last
    physical_device,  \* index of the selected physical device in enumeration order
    queue_family,     \* index of the selected queue family
    surface_format,   \* the selected surface format
    present_mode,     \* the selected present mode
    barriers,         \* image barriers recorded by transition_image_layout, with their submissions
    setup_error,      \* how VulkanContextBuilder::build ended early ("none": it has not)
    g_inst,           \* the VulkanGeometryInstance made last, with the values it was made from
    tlas,             \* the Instance that g_inst was made from: its 4x4 transform
    ds,               \* the DescriptorSet: crate, layout, what each binding holds, the last writes
    td,               \* teardown: the owners alive, the Rc holders, the live objects, the calls made
    bld,              \* a builder: the fields set so far and what its build call did
    mapped,           \* a buffer written through map_memory: what the host wrote, what the device sees
    geom              \* a geometry: the indices given, the index buffer, the description handed to the build

frame_vars == <<path, pc, frames_count, frame_index, image_index, fences, command_buffers,
                acquired, ev, waits, resets, submits, failed_at>>
build_vars == <<bpc, cmds, cb_states, submitted, as_live, bottom_level_as, top_level_as, handle_reads,
                build_fail, failed_as, pipeline, sbt, prog_id_size, as_alloc>>
buffer_vars == <<cpc, memory_types, buffers, arg, pending, found, create_error>>
setup_vars == <<spc, reported, physical_device, queue_family, surface_format, present_mode,
                barriers, setup_error>>
inst_vars == <<g_inst, tlas>>
life_vars == <<td, bld>>
more_vars == <<mapped, geom>>
desc_vars == <<ds, life_vars, more_vars>>
ext_vars == <<buffer_vars, setup_vars, inst_vars, desc_vars>>
vars == <<frame_vars, gpuq, build_vars, ext_vars>>

(***************************************************************************)
(* Bounds of the model.                                                    *)
(***************************************************************************)
MaxFrames == 3        \* frames_count ranges over 1..MaxFrames
MaxTeardownFrames == 2 \* frames rendered before the teardown
NumImages == 3        \* number of swapchain back buffers
MaxHandleSize == 40   \* shader_group_handle_size ranges over 1..MaxHandleSize

Slots == 0 .. (frames_count - 1)
Images == 0 .. (NumImages - 1)

(***************************************************************************)
(* Handles.                                                                *)
(***************************************************************************)
NoSem == <<"none", -1>>
\* CommandBuffers::get_present_complete_semaphore
get_present_complete_semaphore(index) == <<"present_complete", index>>
\* CommandBuffers::get_render_complete_semaphore
get_render_complete_semaphore(index) == <<"render_complete", index>>

\* one logged Vulkan call
Ev(op, slot) == [op |-> op, slot |-> slot, wait |-> NoSem, signal |-> NoSem,
                 fence |-> -1, img |-> -1]

(***************************************************************************)
(* The device queue.                                                       *)
(***************************************************************************)
\* the oldest unfinished submission finishes executing: its fence is signaled and its
\* ONE_TIME_SUBMIT command buffer becomes invalid
GpuComplete ==
    /\ gpuq # <<>>
    /\ LET s == Head(gpuq) IN
        /\ fences' = [i \in Slots |-> fences[i] \/ s.fence = i]
        /\ command_buffers' = [i \in Slots |->
                                 IF s.cb = i THEN "invalid" ELSE command_buffers[i]]
    /\ gpuq' = Tail(gpuq)
    /\ UNCHANGED <<path, pc, frames_count, frame_index, image_index, acquired, ev,
                   waits, resets, submits, failed_at, build_vars, ext_vars>>

\* Device::queue_wait_idle returning Ok: every submission of the queue has finished
queue_wait_idle_fences ==
    [i \in Slots |-> fences[i] \/ \E k \in DOMAIN gpuq : gpuq[k].fence = i]
queue_wait_idle_command_buffers ==
    [i \in Slots |-> IF \E k \in DOMAIN gpuq : gpuq[k].cb = i
                     THEN "invalid" ELSE command_buffers[i]]

(***************************************************************************)
(* CommandBuffers                                                          *)
(***************************************************************************)
\* CommandBuffers::wait_for_fence -> Device::wait_for_fences(.., true, FENCE_TIMEOUT):
\* Ok iff the slot's fence is signaled when the timeout has run out
wait_for_fence_ignored(index) == TRUE
wait_for_fence(index) == fences[index]

\* CommandBuffers::queue_submit: the SubmitInfo and the fence handed to vkQueueSubmit
queue_submit_crossed(index) ==
    [kind |-> "frame", cb |-> index, fence |-> index,
     wait |-> get_render_complete_semaphore(index),
     stage |-> "COLOR_ATTACHMENT_OUTPUT",
     signal |-> get_present_complete_semaphore(index)]
queue_submit_first_buffer(index) ==
    [kind |-> "frame", cb |-> 0, fence |-> index,
     wait |-> get_present_complete_semaphore(index),
     stage |-> "COLOR_ATTACHMENT_OUTPUT",
     signal |-> get_render_complete_semaphore(index)]
queue_submit(index) ==
    [kind |-> "frame", cb |-> index, fence |-> index,
     wait |-> get_present_complete_semaphore(index),
     stage |-> "COLOR_ATTACHMENT_OUTPUT",
     signal |-> get_render_complete_semaphore(index)]

\* the submission made by CommandBuffers::end_single_time_commands (no semaphores, null fence)
single_time_submit ==
    [kind |-> "single", cb |-> -1, fence |-> -1, wait |-> NoSem, stage |-> "none",
     signal |-> NoSem]

Zero == [i \in Slots |-> 0]
Bump(f, i) == [f EXCEPT ![i] = @ + 1]

(***************************************************************************)
(* VulkanContext::frame_begin                                              *)
(***************************************************************************)
FrameBeginFails == {"none", "wait_for_fences", "acquire_next_image", "begin_command_buffer"}

FrameBegin(fail, img) ==
    /\ failed_at = "none"
    /\ pc = IF path = "raster" THEN "updated" ELSE "idle"
    /\ img \in Images \ acquired
    /\ LET i == frame_index
           w == IF i = 0 THEN Zero ELSE waits
           e1 == <<Ev("wait_for_fence", i)>>
           e2 == Append(e1, [Ev("acquire_next_image", i) EXCEPT
                               !.signal = get_present_complete_semaphore(i), !.img = img])
       IN
       /\ resets' = IF i = 0 THEN Zero ELSE resets
       /\ submits' = IF i = 0 THEN Zero ELSE submits
       /\ IF ~wait_for_fence(i) \/ fail = "wait_for_fences"
          THEN \* self.command_buffers.wait_for_fence(self.frame_index)? returns the error
               /\ ev' = <<Ev("wait_for_fence_err", i)>>
               /\ waits' = w
               /\ pc' = "failed" /\ failed_at' = "wait_for_fence"
               /\ UNCHANGED <<image_index, command_buffers, acquired>>
          ELSE IF fail = "acquire_next_image"
          THEN /\ ev' = Append(e1, Ev("acquire_next_image_err", i))
               /\ waits' = Bump(w, i)
               /\ pc' = "failed" /\ failed_at' = "acquire_next_image"
               /\ UNCHANGED <<image_index, command_buffers, acquired>>
          ELSE IF fail = "begin_command_buffer"
          THEN /\ ev' = Append(e2, Ev("begin_command_buffer_err", i))
               /\ waits' = Bump(w, i)
               /\ image_index' = img
               /\ acquired' = acquired \cup {img}
               /\ pc' = "failed" /\ failed_at' = "begin_command_buffer"
               /\ UNCHANGED command_buffers
          ELSE /\ ev' = Append(e2, Ev("begin_command_buffer", i))
               /\ waits' = Bump(w, i)
               /\ image_index' = img
               /\ acquired' = acquired \cup {img}
               /\ command_buffers' = [command_buffers EXCEPT ![i] = "recording"]
               /\ pc' = "begun"
               /\ UNCHANGED failed_at
    /\ UNCHANGED <<path, frames_count, frame_index, fences, gpuq, build_vars, ext_vars>>

(***************************************************************************)
(* VulkanContext::frame_end                                                *)
(***************************************************************************)
FrameEndFails == {"none", "end_command_buffer", "reset_fences", "queue_submit"}

FrameEndNoReset(fail) ==
    /\ failed_at = "none"
    /\ pc = "recorded"
    /\ fail = "none"
    /\ LET i == frame_index IN
       /\ ev' = ev \o <<Ev("end_command_buffer", i),
                        [Ev("queue_submit", i) EXCEPT !.wait = queue_submit(i).wait,
                             !.signal = queue_submit(i).signal, !.fence = queue_submit(i).fence]>>
       /\ command_buffers' = [command_buffers EXCEPT ![i] = "pending"]
       /\ gpuq' = Append(gpuq, queue_submit(i))
       /\ submits' = Bump(submits, i)
       /\ pc' = "submitted"
    /\ UNCHANGED <<path, frames_count, frame_index, image_index, acquired, waits, fences,
                   resets, failed_at, build_vars, ext_vars>>

FrameEnd(fail) ==
    /\ failed_at = "none"
    /\ pc = "recorded"
    /\ LET i == frame_index
           s == queue_submit(i)
           e1 == Append(ev, Ev("end_command_buffer", i))
           e2 == Append(e1, Ev("reset_fence", i))
       IN
       IF fail = "end_command_buffer"
       THEN /\ ev' = Append(ev, Ev("end_command_buffer_err", i))
            /\ command_buffers' = [command_buffers EXCEPT ![i] = "invalid"]
            /\ pc' = "failed" /\ failed_at' = "end_command_buffer"
            /\ UNCHANGED <<fences, gpuq, resets, submits>>
       ELSE IF fail = "reset_fences"
       THEN /\ ev' = Append(e1, Ev("reset_fence_err", i))
            /\ command_buffers' = [command_buffers EXCEPT ![i] = "executable"]
            /\ pc' = "failed" /\ failed_at' = "reset_fence"
            /\ UNCHANGED <<fences, gpuq, resets, submits>>
       ELSE IF fail = "queue_submit"
       THEN /\ ev' = Append(e2, Ev("queue_submit_err", i))
            /\ command_buffers' = [command_buffers EXCEPT ![i] = "executable"]
            /\ fences' = [fences EXCEPT ![i] = FALSE]
            /\ resets' = Bump(resets, i)
            /\ pc' = "failed" /\ failed_at' = "queue_submit"
            /\ UNCHANGED <<gpuq, submits>>
       ELSE /\ ev' = Append(e2, [Ev("queue_submit", s.cb) EXCEPT !.wait = s.wait,
                                    !.signal = s.signal, !.fence = s.fence])
            /\ command_buffers' = [command_buffers EXCEPT ![s.cb] = "pending"]
            /\ fences' = [fences EXCEPT ![i] = FALSE]
            /\ resets' = Bump(resets, i)
            /\ gpuq' = Append(gpuq, s)
            /\ submits' = Bump(submits, i)
            /\ pc' = "submitted"
            /\ UNCHANGED failed_at
    /\ UNCHANGED <<path, frames_count, frame_index, image_index, acquired, waits, build_vars, ext_vars>>

(***************************************************************************)
(* VulkanContext::frame_present                                            *)
(***************************************************************************)
\* self.frame_index = (self.frame_index + 1) % self.frames_count
next_frame_index_unwrapped(index, count) == index + 1
next_frame_index(index, count) == (index + 1) % count

FramePresent(ok) ==
    /\ failed_at = "none"
    /\ pc = "submitted"
    /\ LET i == frame_index
           p == [Ev("queue_present", i) EXCEPT !.wait = get_render_complete_semaphore(i),
                                               !.img = image_index]
       IN
       IF ok
       THEN /\ ev' = Append(ev, p)
            /\ acquired' = acquired \ {image_index}
            /\ frame_index' = next_frame_index(frame_index, frames_count)
            /\ pc' = "idle"
            /\ UNCHANGED failed_at
       ELSE /\ ev' = Append(ev, [p EXCEPT !.op = "queue_present_err"])
            /\ pc' = "failed" /\ failed_at' = "queue_present"
            /\ UNCHANGED <<acquired, frame_index>>
    /\ UNCHANGED <<path, frames_count, image_index, fences, command_buffers, gpuq,
                   waits, resets, submits, build_vars, ext_vars>>

(***************************************************************************)
(* Renderer::draw_frame (path "raster")                                    *)
(***************************************************************************)
\* self.update_uniform_buffer(): Buffer::copy_data into the host-visible uniform buffer
UpdateUniformBuffer(ok) ==
    /\ failed_at = "none"
    /\ path = "raster"
    /\ pc = "idle"
    /\ IF ok THEN pc' = "updated" /\ UNCHANGED failed_at
             ELSE pc' = "failed" /\ failed_at' = "map_memory"
    /\ UNCHANGED <<path, frames_count, frame_index, image_index, fences, command_buffers,
                   acquired, gpuq, ev, waits, resets, submits, build_vars, ext_vars>>

\* begin_render_pass, GraphicsPipelineContext::draw, end_render_pass: commands recorded into
\* the slot's command buffer
DrawRaster ==
    /\ failed_at = "none"
    /\ path = "raster"
    /\ pc = "begun"
    /\ ev' = ev \o <<Ev("cmd_begin_render_pass", frame_index),
                     Ev("cmd_draw_indexed", frame_index),
                     Ev("cmd_end_render_pass", frame_index)>>
    /\ pc' = "recorded"
    /\ UNCHANGED <<path, frames_count, frame_index, image_index, fences, command_buffers,
                   acquired, gpuq, waits, resets, submits, failed_at, build_vars, ext_vars>>

(***************************************************************************)
(* DescriptorSet                                                           *)
(***************************************************************************)
\* the two crates of the repository that define DescriptorSet
Crates == {"vulkan_ray_tracing", "vulkan_helpers"}

\* DescriptorSetBuilder::add_binding
add_binding(binding, descriptor_count, descriptor_type) ==
    [binding |-> binding, descriptor_count |-> descriptor_count,
     descriptor_type |-> descriptor_type]

\* DescriptorSetBuilder::build, the bindings vector: the same in both crates; textures is
\* geometry_instance.textures.len()
layout_bindings(textures) ==
    <<add_binding(0, 1, "ACCELERATION_STRUCTURE_NV"),
      add_binding(1, 1, "STORAGE_IMAGE"),
      add_binding(2, 1, "UNIFORM_BUFFER"),
      add_binding(3, 1, "STORAGE_BUFFER"),
      add_binding(4, 1, "STORAGE_BUFFER"),
      add_binding(5, 1, "STORAGE_BUFFER"),
      add_binding(6, textures, "COMBINED_IMAGE_SAMPLER")>>

\* vk::WriteDescriptorSet::builder().dst_binding(b).descriptor_type(t): descriptor_count
\* starts as 0
write_builder(dst_binding, descriptor_type) ==
    [dst_binding |-> dst_binding, descriptor_type |-> descriptor_type,
     descriptor_count |-> 0, info |-> <<>>]
\* .image_info(infos) and .buffer_info(infos) store the slice and set descriptor_count to
\* its length
with_info(w, infos) == [w EXCEPT !.descriptor_count = Len(infos), !.info = infos]
\* .push_next(&mut as_info) chains the structure and leaves descriptor_count as it is
push_next(w, as_info) == [w EXCEPT !.info = as_info]

\* the builders keep a pointer to the slice they are given and .build() drops its lifetime:
\* a slice written as a temporary `&[x]` is gone when update_descriptor_sets reads it, so
\* what is read is x or anything else; garbled holds the bindings read as something else
slice(binding, x, garbled) == IF binding \in garbled THEN <<"undefined">> ELSE <<x>>

\* the bindings whose write is built from a temporary slice
Temporaries(crate, call) ==
    IF call = "update_render_target"
    THEN (IF crate = "vulkan_ray_tracing" THEN 0 .. 5 ELSE {1})
    ELSE {0, 2, 3, 4, 5}

\* the texture image infos: a Vec that lives until update_descriptor_sets returns
image_infos(textures) == [k \in 1 .. textures |-> <<"texture", k>>]

\* vulkan_ray_tracing DescriptorSet::update_render_target: the wds vector
update_render_target_ray_tracing_default_count(acceleration_structure, target, textures, garbled) ==
    <<push_next(write_builder(0, "ACCELERATION_STRUCTURE_NV"),
                slice(0, acceleration_structure, garbled)),
      with_info(write_builder(1, "STORAGE_IMAGE"), slice(1, target, garbled)),
      with_info(write_builder(2, "UNIFORM_BUFFER"), slice(2, "camera_buffer", garbled)),
      with_info(write_builder(3, "STORAGE_BUFFER"), slice(3, "vertex_buffer", garbled)),
      with_info(write_builder(4, "STORAGE_BUFFER"), slice(4, "index_buffer", garbled)),
      with_info(write_builder(5, "STORAGE_BUFFER"), slice(5, "material_buffer", garbled)),
      with_info(write_builder(6, "COMBINED_IMAGE_SAMPLER"), image_infos(textures))>>
update_render_target_ray_tracing(acceleration_structure, target, textures, garbled) ==
    <<[push_next(write_builder(0, "ACCELERATION_STRUCTURE_NV"),
                 slice(0, acceleration_structure, garbled)) EXCEPT !.descriptor_count = 1],
      with_info(write_builder(1, "STORAGE_IMAGE"), slice(1, target, garbled)),
      with_info(write_builder(2, "UNIFORM_BUFFER"), slice(2, "camera_buffer", garbled)),
      with_info(write_builder(3, "STORAGE_BUFFER"), slice(3, "vertex_buffer", garbled)),
      with_info(write_builder(4, "STORAGE_BUFFER"), slice(4, "index_buffer", garbled)),
      with_info(write_builder(5, "STORAGE_BUFFER"), slice(5, "material_buffer", garbled)),
      with_info(write_builder(6, "COMBINED_IMAGE_SAMPLER"), image_infos(textures))>>

\* vulkan_helpers DescriptorSet::update_render_target(target): one write
update_render_target_helpers(target, garbled) ==
    <<with_info(write_builder(1, "STORAGE_IMAGE"), slice(1, target, garbled))>>

\* vulkan_helpers DescriptorSetBuilder::build, the wds vector it writes before returning
build_writes_helpers(textures, garbled) ==
    <<push_next(write_builder(0, "ACCELERATION_STRUCTURE_NV"),
                slice(0, "top_level_as", garbled)),
      with_info(write_builder(2, "UNIFORM_BUFFER"), slice(2, "camera_buffer", garbled)),
      with_info(write_builder(3, "STORAGE_BUFFER"), slice(3, "vertex_buffer", garbled)),
      with_info(write_builder(4, "STORAGE_BUFFER"), slice(4, "index_buffer", garbled)),
      with_info(write_builder(5, "STORAGE_BUFFER"), slice(5, "material_buffer", garbled)),
      with_info(write_builder(6, "COMBINED_IMAGE_SAMPLER"), image_infos(textures))>>

\* device.update_descriptor_sets(&wds): each write replaces descriptor_count descriptors of
\* its binding, a write of count 0 replaces none
RECURSIVE update_descriptor_sets(_, _)
update_descriptor_sets(bound, wds) ==
    IF wds = <<>> THEN bound
    ELSE LET w == Head(wds)
             after == IF w.descriptor_count = 0 THEN bound
                      ELSE [bound EXCEPT ![w.dst_binding] = w.info]
         IN  update_descriptor_sets(after, Tail(wds))

Unwritten == <<"unwritten">>
NoDescriptorSet ==
    [crate |-> "none", built |-> FALSE, textures |-> 0, layout |-> <<>>,
     bound |-> [b \in 0 .. 6 |-> Unwritten], wds |-> <<>>, call |-> "none", updates |-> 0]

DescriptorSetFails ==
    {"none", "begin_single_time_commands", "end_single_time_commands",
     "create_descriptor_pool", "create_descriptor_set_layout", "allocate_descriptor_sets"}

\* DescriptorSetBuilder::build of crate, for a geometry instance with `textures` textures
descriptor_set_build(crate, textures, garbled) ==
    LET wds == IF crate = "vulkan_helpers" THEN build_writes_helpers(textures, garbled)
               ELSE <<>>
    IN  [crate |-> crate, built |-> TRUE, textures |-> textures,
         layout |-> layout_bindings(textures),
         bound |-> update_descriptor_sets(NoDescriptorSet.bound, wds),
         wds |-> wds, call |-> "build", updates |-> 0]

DescriptorSetBuild(crate, textures, fail, garbled) ==
    /\ ~ds.built
    /\ ds.call = "none"
    /\ ds' = IF fail = "none" THEN descriptor_set_build(crate, textures, garbled)
             ELSE [NoDescriptorSet EXCEPT !.call = fail]
    /\ UNCHANGED <<frame_vars, gpuq, build_vars, buffer_vars, setup_vars, inst_vars, life_vars, more_vars>>

\* the image views a frame can pass: one per swapchain image
BackBufferView(img) == <<"back_buffer_view", img>>

\* DescriptorSet::update_render_target of the crate the set belongs to
update_render_target(d, target, garbled) ==
    LET wds == IF d.crate = "vulkan_ray_tracing"
               THEN update_render_target_ray_tracing("top_level_as", target, d.textures,
                                                     garbled)
               ELSE update_render_target_helpers(target, garbled)
    IN  [d EXCEPT !.bound = update_descriptor_sets(d.bound, wds),
                  !.wds = wds, !.call = "update_render_target"]

(***************************************************************************)
(* Teardown: Drop implementations and field order                          *)
(***************************************************************************)
Destroy(obj) == [op |-> "destroy", obj |-> obj]
WaitIdle == [op |-> "queue_wait_idle", obj |-> "queue"]
\* an Rc<VulkanDevice>, Rc<VulkanInstance> or Rc<RefCell<VulkanContext>> field goes away
Release(rc, holder) == [op |-> "release_" \o rc, obj |-> holder]

\* Drop for Buffer: destroy_buffer, free_memory, then the device field
buffer_drop(b) ==
    <<Destroy(b \o ".buffer"), Destroy(b \o ".memory"), Release("device", b)>>

\* VulkanContextBuilder::build: the objects in the order they are created
ConstructionOrder ==
    <<"instance", "surface", "device", "command_buffers", "descriptor_pool", "swapchain",
      "render_pass", "image_views", "depth_resources", "frame_buffers">>

\* what the Drop of each field of VulkanContext destroys
field_drop(field) ==
    IF field = "depth_resources"
    THEN <<Destroy("depth_image_view"), Destroy("depth_image"),
           Destroy("depth_image_memory"), Release("device", field)>>
    ELSE IF field = "device" THEN <<Release("device", "context")>>
    ELSE IF field = "instance" THEN <<Release("instance", "context")>>
    ELSE IF field = "surface" THEN <<Destroy("surface")>>
    ELSE <<Destroy(field), Release("device", field)>>

\* Drop for VulkanContext: queue_wait_idle().unwrap(), then the fields in declaration order
context_drop ==
    <<WaitIdle>> \o field_drop("frame_buffers") \o field_drop("depth_resources")
    \o field_drop("image_views") \o field_drop("render_pass") \o field_drop("swapchain")
    \o field_drop("descriptor_pool") \o field_drop("command_buffers")
    \o field_drop("device") \o field_drop("surface") \o field_drop("instance")

\* Drop for AccelerationStructure (destroy_acceleration_structure), then its fields
acceleration_structure_drop(a, instances) ==
    <<Destroy(a)>> \o buffer_drop(a \o ".scratch_buffer")
    \o buffer_drop(a \o ".result_buffer")
    \o (IF instances THEN buffer_drop(a \o ".instances_buffer") ELSE <<>>)

\* RayTracingPipeline of vulkan_ray_tracing has no Drop: its fields go in declaration
\* order, the Rc<RefCell<VulkanContext>> first
ray_tracing_pipeline_drop ==
    <<Release("context", "pipeline")>>
    \o buffer_drop("sbt_buffer")
    \o <<Destroy("pipeline"), Destroy("pipeline_layout"), Release("device", "pipeline")>>
    \o <<Destroy("descriptor_set_layout"), Destroy("descriptor_set_pool"),
         Release("device", "descriptor_set")>>
    \o acceleration_structure_drop("top_level_as", TRUE)
    \o acceleration_structure_drop("bottom_level_as", FALSE)
    \o buffer_drop("vertex_buffer") \o buffer_drop("index_buffer")
    \o buffer_drop("material_buffer")
    \o buffer_drop("camera_buffer") \o buffer_drop("clear_buffer")

\* Drop for GraphicsPipelineContext of vulkan_helpers: queue_wait_idle().unwrap(), then
\* the fields in declaration order
graphics_pipeline_context_drop ==
    <<WaitIdle, Release("device", "graphics_pipeline_context")>>
    \o buffer_drop("uniform_buffer") \o buffer_drop("vertex_buffer")
    \o buffer_drop("index_buffer") \o buffer_drop("material_buffer")
    \o <<Destroy("descriptor_set"), Destroy("descriptor_set_layout"),
         Destroy("descriptor_set_pool"), Release("device", "descriptor_set")>>
    \o <<Destroy("pipeline"), Destroy("pipeline_layout"), Release("device", "pipeline")>>
    \o <<Destroy("set_layout"), Release("device", "set_layout")>>

\* the objects and Rc holders each owner brings when it is built
PipelineObjects(kind) ==
    LET steps == IF kind = "ray_tracing" THEN ray_tracing_pipeline_drop
                 ELSE graphics_pipeline_context_drop
    IN  [objects |-> {steps[k].obj : k \in {j \in DOMAIN steps : steps[j].op = "destroy"}},
         holders |-> {steps[k].obj :
                        k \in {j \in DOMAIN steps : steps[j].op = "release_device"}}]
ContextObjects ==
    {context_drop[k].obj : k \in {j \in DOMAIN context_drop : context_drop[j].op = "destroy"}}
ContextHolders ==
    {context_drop[k].obj :
       k \in {j \in DOMAIN context_drop : context_drop[j].op = "release_device"}}

\* the released holders of an Rc among the first k steps
Released(steps, rc, k) ==
    {steps[j].obj : j \in {i \in 1 .. k : steps[i].op = "release_" \o rc}}

\* Rc: the step that releases the last of the holders runs the Drop of what the Rc holds
last_release(steps, rc, holders, drop) ==
    LET K == {k \in DOMAIN steps : /\ steps[k].op = "release_" \o rc
                                   /\ holders \subseteq Released(steps, rc, k)}
    IN  IF holders = {} \/ K = {} THEN steps
        ELSE LET k == CHOOSE i \in K : \A j \in K : i <= j
             IN  SubSeq(steps, 1, k) \o drop \o SubSeq(steps, k + 1, Len(steps))

\* the steps of a drop on teardown state t: the last Rc of the context runs Drop for
\* VulkanContext, the last Rc of the device runs Drop for Device (destroy_device), whose
\* Rc of the instance goes next, the last Rc of the instance runs Drop for Instance
expand(steps, t) ==
    last_release(
        last_release(
            last_release(steps, "context", t.context_holders, context_drop),
            "device", t.device_holders, <<Destroy("device"), Release("instance", "device")>>),
        "instance", t.instance_holders, <<Destroy("instance")>>)

IsCall(st) == st.op \in {"destroy", "queue_wait_idle"}

\* the teardown state after steps ran on t: a destroy call removes the object,
\* queue_wait_idle ends the pending GPU work; each call is logged with whether GPU work
\* was pending and which objects existed when it was made
run(steps, t) ==
    LET all == expand(steps, t)
        calls == SelectSeq(all, IsCall)
        waited(k) == \E j \in 1 .. k : calls[j].op = "queue_wait_idle"
        gone(k) == {calls[j].obj : j \in {i \in 1 .. k : calls[i].op = "destroy"}}
    IN  [t EXCEPT
           !.context_holders = @ \ Released(all, "context", Len(all)),
           !.device_holders = @ \ Released(all, "device", Len(all)),
           !.instance_holders = @ \ Released(all, "instance", Len(all)),
           !.objects = @ \ gone(Len(calls)),
           !.pending = @ /\ ~waited(Len(calls)),
           !.log = @ \o [k \in DOMAIN calls |->
                           [op |-> calls[k].op, obj |-> calls[k].obj,
                            pending |-> t.pending /\ ~waited(k - 1),
                            live |-> t.objects \ gone(k - 1)]]]

NoTeardown ==
    [kind |-> "none", owners |-> {}, context_holders |-> {}, device_holders |-> {},
     instance_holders |-> {}, objects |-> {}, pending |-> FALSE, log |-> <<>>,
     frames |-> 0, user_buffer |-> FALSE]

\* a built VulkanContext with a pipeline of the given kind; the RayTracingPipeline holds an
\* Rc of the context, which the caller keeps too when shared
Built(kind, shared) ==
    [kind |-> kind,
     owners |-> {"pipeline"} \cup (IF kind = "ray_tracing" /\ ~shared THEN {}
                                   ELSE {"caller"}),
     context_holders |-> (IF kind = "ray_tracing" THEN {"pipeline"} ELSE {})
                         \cup (IF kind = "ray_tracing" /\ ~shared THEN {} ELSE {"caller"}),
     device_holders |-> ContextHolders \cup PipelineObjects(kind).holders,
     instance_holders |-> {"context", "device"},
     objects |-> ContextObjects \cup PipelineObjects(kind).objects \cup {"device", "instance"},
     pending |-> FALSE, log |-> <<>>, frames |-> 0, user_buffer |-> FALSE]

\* BufferBuilder::build returning Err after create_buffer: nothing owns the vk::Buffer
\* (after allocate_memory: nor the memory), no Drop will run for them
BufferLeaks == {"find_memory_type", "allocate_memory", "bind_buffer_memory"}
FailedBufferBuild(fail) ==
    /\ "caller" \in td.context_holders
    /\ "failed.buffer" \notin td.objects
    /\ td' = [td EXCEPT !.objects = @ \cup {"failed.buffer"}
                            \cup (IF fail = "bind_buffer_memory"
                                  THEN {"failed.memory"} ELSE {})]
    /\ UNCHANGED <<frame_vars, gpuq, build_vars, buffer_vars, setup_vars, inst_vars, ds, bld, more_vars>>

\* VulkanContext::create_buffer returning Ok: a Buffer the caller owns
CreateUserBuffer ==
    /\ "caller" \in td.context_holders
    /\ ~td.user_buffer
    /\ td' = [td EXCEPT !.owners = @ \cup {"user_buffer"}, !.user_buffer = TRUE,
                        !.device_holders = @ \cup {"user_buffer"},
                        !.objects = @ \cup {"user_buffer.buffer",
                                            "user_buffer.memory"}]
    /\ UNCHANGED <<frame_vars, gpuq, build_vars, buffer_vars, setup_vars, inst_vars, ds, bld, more_vars>>

\* begin_draw, draw, end_draw: a frame was submitted and presented, its commands pending
RenderFrame ==
    /\ "pipeline" \in td.owners
    /\ td.context_holders # {}
    /\ td.frames < MaxTeardownFrames
    /\ td' = [td EXCEPT !.pending = TRUE, !.frames = @ + 1]
    /\ UNCHANGED <<frame_vars, gpuq, build_vars, buffer_vars, setup_vars, inst_vars, ds, bld, more_vars>>

\* the GPU finishes the submitted frame
GpuFinish ==
    /\ td.pending
    /\ td' = [td EXCEPT !.pending = FALSE]
    /\ UNCHANGED <<frame_vars, gpuq, build_vars, buffer_vars, setup_vars, inst_vars, ds, bld, more_vars>>

\* what dropping an owner runs: the caller's context is an Rc for the ray tracing path
\* and the VulkanContext itself for the raster path
owner_drop(kind, owner) ==
    IF owner = "user_buffer" THEN buffer_drop("user_buffer")
    ELSE IF owner = "pipeline"
    THEN (IF kind = "ray_tracing" THEN ray_tracing_pipeline_drop
          ELSE graphics_pipeline_context_drop)
    ELSE <<Release("context", "caller")>>

DropOwner(owner) ==
    /\ owner \in td.owners
    /\ td' = run(owner_drop(td.kind, owner), [td EXCEPT !.owners = @ \ {owner}])
    /\ UNCHANGED <<frame_vars, gpuq, build_vars, buffer_vars, setup_vars, inst_vars, ds, bld, more_vars>>

(***************************************************************************)
(* Builders: with_* calls and build                                        *)
(***************************************************************************)
Create(obj) == [step |-> "create", obj |-> obj]
\* .unwrap() on the Option: panics on None
Unwrap(fields) == [step |-> "unwrap", fields |-> fields, message |-> ""]
\* .expect(message) on the Option: panics with the message on None
Expect(field, message) == [step |-> "expect", fields |-> {field}, message |-> message]
\* .ok_or_else(...)? on the Option: returns Err(message) on None
OkOrElse(field, message) == [step |-> "ok_or_else", fields |-> {field}, message |-> message]

Builders ==
    {"GraphicsPipelineContextBuilder", "AccelerationStructureBuilder",
     "RayTracingPipelineBuilder", "PipelineBuilder"}

\* the Option fields of each builder
Fields(builder) ==
    IF builder = "GraphicsPipelineContextBuilder"
    THEN {"vertex_shader", "fragment_shader", "vertex_buffer", "index_buffer",
          "material_buffer"}
    ELSE IF builder = "AccelerationStructureBuilder"
    THEN {"command_buffer", "bottom_level_as", "top_level_as"}
    ELSE IF builder = "RayTracingPipelineBuilder" THEN {"geometry_instance"}
    ELSE {"vertex_shader", "fragment_shader"}

\* what build does, in program order, given the fields that were set
steps_of(builder, set) ==
    IF builder = "GraphicsPipelineContextBuilder"
    THEN <<Create("descriptor_set_layout"),
           Unwrap({"vertex_shader"}), Unwrap({"fragment_shader"}),
           Create("graphics_pipeline"), Create("uniform_buffer"),
           OkOrElse("material_buffer", "Material buffer missing"),
           Create("descriptor_set"),
           Unwrap({"vertex_buffer"}), Unwrap({"index_buffer"})>>
    ELSE IF builder = "AccelerationStructureBuilder"
    THEN <<Unwrap({"bottom_level_as", "top_level_as"}),
           Create("acc_structure"), Create("scratch_buffer"), Create("result_buffer")>>
         \o (IF "bottom_level_as" \in set THEN <<>> ELSE <<Create("instances_buffer")>>)
         \o <<Unwrap({"command_buffer"})>>
    ELSE IF builder = "RayTracingPipelineBuilder"
    THEN <<Create("camera_buffer"), Create("clear_buffer"), Create("command_buffer"),
           Unwrap({"geometry_instance"}),
           Create("bottom_level_as"), Create("top_level_as"), Create("descriptor_set"),
           Create("pipeline"), Create("sbt")>>
    ELSE <<Expect("vertex_shader", "Vertex shader not specified"),
           Create("vert_shader_module"),
           Expect("fragment_shader", "Fragment shader not specified"),
           Create("frag_shader_module"),
           Create("pipeline_layout"), Create("pipeline")>>

\* the objects build may create
Creations(builder) ==
    {steps_of(builder, {})[k].obj :
        k \in {j \in DOMAIN steps_of(builder, {}) : steps_of(builder, {})[j].step = "create"}}

\* build: the steps run in order; a Vulkan call that fails returns its error through ?
\* (the object is not created), a missing field ends the call as its step says
RECURSIVE build_steps(_, _, _, _)
build_steps(steps, set, fail, created) ==
    IF steps = <<>> THEN [result |-> "Ok", message |-> "", created |-> created]
    ELSE
    LET st == Head(steps) IN
    IF st.step = "create"
    THEN (IF st.obj = fail
          THEN [result |-> "Err", message |-> "VulkanError", created |-> created]
          ELSE build_steps(Tail(steps), set, fail, Append(created, st.obj)))
    ELSE IF st.fields \cap set # {} THEN build_steps(Tail(steps), set, fail, created)
    ELSE IF st.step = "ok_or_else"
    THEN [result |-> "Err", message |-> st.message, created |-> created]
    ELSE [result |-> "panic", message |-> st.message, created |-> created]

NoBuilder ==
    [builder |-> "none", set |-> {}, built |-> FALSE, fail |-> "none",
     result |-> "none", message |-> "", created |-> <<>>]

\* XBuilder::new
NewBuilder(builder) ==
    /\ bld.builder = "none"
    /\ bld' = [NoBuilder EXCEPT !.builder = builder]
    /\ UNCHANGED <<frame_vars, gpuq, build_vars, buffer_vars, setup_vars, inst_vars, ds, td, more_vars>>

\* with_<field>
With(field) ==
    /\ bld.builder # "none"
    /\ ~bld.built
    /\ field \in Fields(bld.builder) \ bld.set
    /\ bld' = [bld EXCEPT !.set = @ \cup {field}]
    /\ UNCHANGED <<frame_vars, gpuq, build_vars, buffer_vars, setup_vars, inst_vars, ds, td, more_vars>>

\* build(self)
Build(fail) ==
    /\ bld.builder # "none"
    /\ ~bld.built
    /\ fail \in Creations(bld.builder) \cup {"none"}
    /\ LET r == build_steps(steps_of(bld.builder, bld.set), bld.set, fail, <<>>) IN
       bld' = [bld EXCEPT !.built = TRUE, !.fail = fail, !.result = r.result,
                          !.message = r.message, !.created = r.created]
    /\ UNCHANGED <<frame_vars, gpuq, build_vars, buffer_vars, setup_vars, inst_vars, ds, td, more_vars>>

(***************************************************************************)
(* RayTracingPipeline (path "raytrace")                                    *)
(***************************************************************************)
SingleTimeFails == {"none", "begin_single_time_commands", "end_single_time_commands"}

\* RayTracingPipeline::create_image_barrier: the calls it issues, by outcome
create_image_barrier(fail, old_layout, new_layout) ==
    IF fail = "begin_single_time_commands"
    THEN <<Ev("begin_single_time_commands_err", frame_index)>>
    ELSE IF fail = "end_single_time_commands"
    THEN <<Ev("begin_single_time_commands", frame_index),
           Ev("cmd_pipeline_barrier_" \o old_layout \o "_" \o new_layout, frame_index),
           Ev("end_single_time_commands_err", frame_index)>>
    ELSE <<Ev("begin_single_time_commands", frame_index),
           Ev("cmd_pipeline_barrier_" \o old_layout \o "_" \o new_layout, frame_index),
           Ev("single_time_submit", frame_index),
           Ev("queue_wait_idle", frame_index),
           Ev("free_command_buffers", frame_index)>>

\* whether a logged call sequence holds a completed queue_wait_idle
WaitedIdle(calls) == \E k \in DOMAIN calls : calls[k].op = "queue_wait_idle"

AfterCallsNotWaiting(calls) == UNCHANGED <<gpuq, fences, command_buffers>>
\* the queue, the fences and the frame command buffers after the calls of a helper
AfterCalls(calls) ==
    IF WaitedIdle(calls)
    THEN /\ gpuq' = <<>>
         /\ fences' = queue_wait_idle_fences
         /\ command_buffers' = queue_wait_idle_command_buffers
    ELSE UNCHANGED <<gpuq, fences, command_buffers>>

\* begin_draw after frame_begin()?: create_image_barrier(UNDEFINED -> COLOR_ATTACHMENT_OPTIMAL)?
\* and descriptor_set.update_render_target
BeginDrawBarrier(fail, garbled) ==
    /\ failed_at = "none"
    /\ path = "raytrace"
    /\ pc = "begun"
    /\ LET calls == create_image_barrier(fail, "UNDEFINED", "COLOR_ATTACHMENT_OPTIMAL") IN
       /\ AfterCalls(calls)
       /\ IF fail = "none"
          THEN /\ ev' = ev \o calls \o <<Ev("update_render_target", frame_index)>>
               /\ ds' = update_render_target(ds, BackBufferView(image_index), garbled)
               /\ pc' = "ready"
               /\ UNCHANGED failed_at
          ELSE /\ ev' = ev \o calls
               /\ pc' = "failed" /\ failed_at' = fail
               /\ UNCHANGED ds
    /\ UNCHANGED <<path, frames_count, frame_index, image_index, acquired, waits, resets,
                   submits, build_vars, buffer_vars, setup_vars, inst_vars, life_vars, more_vars>>

\* RayTracingPipeline::draw: begin_render_pass, bind, trace rays, then
\* create_image_barrier(COLOR_ATTACHMENT_OPTIMAL -> PRESENT_SRC_KHR)?, cmd_next_subpass
DrawRayTracing(fail) ==
    /\ failed_at = "none"
    /\ path = "raytrace"
    /\ pc = "ready"
    /\ LET rec == <<Ev("cmd_begin_render_pass", frame_index),
                    Ev("cmd_bind_pipeline", frame_index),
                    Ev("cmd_bind_descriptor_sets", frame_index),
                    Ev("cmd_trace_rays", frame_index)>>
           calls == create_image_barrier(fail, "COLOR_ATTACHMENT_OPTIMAL", "PRESENT_SRC_KHR")
       IN
       /\ AfterCalls(calls)
       /\ IF fail = "none"
          THEN /\ ev' = ev \o rec \o calls \o <<Ev("cmd_next_subpass", frame_index),
                                                Ev("cmd_end_render_pass", frame_index)>>
               /\ pc' = "recorded"
               /\ UNCHANGED failed_at
          ELSE /\ ev' = ev \o rec \o calls
               /\ pc' = "failed" /\ failed_at' = fail
    /\ UNCHANGED <<path, frames_count, frame_index, image_index, acquired, waits, resets,
                   submits, build_vars, ext_vars>>

(***************************************************************************)
(* RayTracingPipelineBuilder::build                                        *)
(***************************************************************************)
ACCELERATION_STRUCTURE_RW ==
    {"ACCELERATION_STRUCTURE_WRITE_NV", "ACCELERATION_STRUCTURE_READ_NV"}

\* AccelerationStructureBuilder::generate: the vk::MemoryBarrier recorded after the build
memory_barrier_write_only ==
    [src_access_mask |-> {"ACCELERATION_STRUCTURE_WRITE_NV"},
     dst_access_mask |-> {"ACCELERATION_STRUCTURE_READ_NV"}]
memory_barrier ==
    [src_access_mask |-> ACCELERATION_STRUCTURE_RW,
     dst_access_mask |-> ACCELERATION_STRUCTURE_RW]

BuildCmd(cb, ty, acc_structure, instances) ==
    [cb |-> cb, op |-> "cmd_build_acceleration_structure", ty |-> ty,
     acc_structure |-> acc_structure, instances |-> instances,
     src_access_mask |-> {}, dst_access_mask |-> {}]
BarrierCmd(cb) ==
    [cb |-> cb, op |-> "cmd_pipeline_barrier", ty |-> "none", acc_structure |-> 0,
     instances |-> <<>>,
     src_access_mask |-> memory_barrier.src_access_mask,
     dst_access_mask |-> memory_barrier.dst_access_mask]
UpdateBufferCmd(cb) ==
    [cb |-> cb, op |-> "cmd_update_buffer", ty |-> "none", acc_structure |-> 0,
     instances |-> <<>>, src_access_mask |-> {}, dst_access_mask |-> {}]

\* AccelerationStructureBuilder::generate, lines 302-330: the commands it records into
\* self.command_buffer
generate_commands_no_barrier(cb, ty, acc_structure, instances) ==
    <<BuildCmd(cb, ty, acc_structure, instances)>>
generate_commands(cb, ty, acc_structure, instances) ==
    <<BuildCmd(cb, ty, acc_structure, instances), BarrierCmd(cb)>>

\* CommandBuffers::begin_single_time_commands: a fresh command buffer in the recording state
begin_single_time_commands == Append(cb_states, "recording")

\* CommandBuffers::end_single_time_commands(command_buffer): end, submit with a null fence,
\* queue_wait_idle, free
EndSingleTimeFails == {"none", "end_command_buffer", "queue_submit", "queue_wait_idle"}

end_single_time_commands_no_wait(states, command_buffer, fail) ==
    /\ submitted' = IF fail = "none" THEN Append(submitted, command_buffer) ELSE submitted
    /\ gpuq' = IF fail = "none" THEN Append(gpuq, single_time_submit) ELSE gpuq
    /\ cb_states' = [states EXCEPT ![command_buffer] =
                        IF fail = "none" THEN "freed" ELSE "executable"]
end_single_time_commands(states, command_buffer, fail) ==
    IF fail = "end_command_buffer"
    THEN /\ cb_states' = [states EXCEPT ![command_buffer] = "invalid"]
         /\ UNCHANGED <<submitted, gpuq>>
    ELSE IF fail = "queue_submit"
    THEN /\ cb_states' = [states EXCEPT ![command_buffer] = "executable"]
         /\ UNCHANGED <<submitted, gpuq>>
    ELSE IF fail = "queue_wait_idle"
    THEN /\ cb_states' = [states EXCEPT ![command_buffer] = "pending"]
         /\ submitted' = Append(submitted, command_buffer)
         /\ gpuq' = Append(gpuq, single_time_submit)
    ELSE /\ cb_states' = [states EXCEPT ![command_buffer] = "freed"]
         /\ submitted' = Append(submitted, command_buffer)
         /\ gpuq' = <<>>

\* the command buffer create_acceleration_structures records into: the last one begun
BuildCommandBuffer == Len(cb_states)

\* RayTracingBuilder::build (the device reports shader_group_handle_size), the camera and
\* clear buffers, and the upload of the clear colour in a single-use command buffer
BuildBuffers(size, fail) ==
    /\ bpc = "start"
    /\ prog_id_size' = size
    /\ LET cb == Len(cb_states) + 1 IN
       /\ cmds' = Append(cmds, UpdateBufferCmd(cb))
       /\ end_single_time_commands(begin_single_time_commands, cb, fail)
    /\ IF fail = "none"
       THEN bpc' = "buffers" /\ UNCHANGED build_fail
       ELSE bpc' = "failed" /\ build_fail' = fail
    /\ UNCHANGED <<frame_vars, ext_vars, as_alloc, pipeline, as_live, bottom_level_as, top_level_as, handle_reads,
                   failed_as, sbt>>

\* create_acceleration_structures, line 239: begin_single_time_commands().unwrap()
BeginBuildCommands ==
    /\ bpc = "buffers"
    /\ cb_states' = begin_single_time_commands
    /\ bpc' = "recording"
    /\ UNCHANGED <<frame_vars, ext_vars, as_alloc, pipeline, gpuq, cmds, submitted, as_live, bottom_level_as, top_level_as,
                   handle_reads, build_fail, failed_as, sbt, prog_id_size>>

\* AccelerationStructureBuilder::build and generate, for one structure of type ty instancing
\* the bottom-level handles of instances; fail names the call that returns Err ("none": Ok).
\* The new handle is live from create_acceleration_structure on; on Err nothing owns it.
ASBuildFails(ty) ==
    {"none", "create_acceleration_structure", "scratch_buffer", "result_buffer",
     "bind_acceleration_structure_memory"}
    \cup IF ty = "TOP_LEVEL"
         THEN {"instances_buffer", "get_acceleration_structure_handle", "copy_data"}
         ELSE {}

\* the calls of build that have run when `fail` returns its error
Ran(fail, step) ==
    LET order == <<"create_acceleration_structure", "scratch_buffer", "result_buffer",
                   "instances_buffer", "get_acceleration_structure_handle", "copy_data",
                   "bind_acceleration_structure_memory", "none">>
        pos(x) == CHOOSE k \in DOMAIN order : order[k] = x
    IN pos(step) < pos(fail)

\* what one call of build does: whether a handle was created, the bottom-level handles it
\* retrieved (each with the length of the command stream at that moment), the commands it
\* recorded, and whether it returned Ok
as_build(ty, acc_structure, instances, fail) ==
    [created |-> Ran(fail, "create_acceleration_structure"),
     reads |-> IF ty = "TOP_LEVEL" /\ Ran(fail, "get_acceleration_structure_handle")
               THEN [k \in DOMAIN instances |->
                       [acc_structure |-> instances[k], at |-> Len(cmds)]]
               ELSE <<>>,
     commands |-> IF fail = "none"
                  THEN generate_commands(BuildCommandBuffer, ty, acc_structure, instances)
                  ELSE <<>>,
     ok |-> fail = "none"]

\* mem::size_of::<VulkanGeometryInstance>(): 12 f32, two u32 and one u64, #[repr(C)]
SizeOfVulkanGeometryInstance == 64

Max(a, b) == IF a >= b THEN a ELSE b

\* compute_as_buffer_sizes: req holds the sizes the three memory-requirement queries
\* (OBJECT, BUILD_SCRATCH, UPDATE_SCRATCH) report for the structure
compute_as_buffer_sizes_build_only(req) ==
    [scratch_size |-> req.build_scratch, result_size |-> req.object]
compute_as_buffer_sizes(req) ==
    [scratch_size |-> Max(req.build_scratch, req.update_scratch), result_size |-> req.object]

\* generate, from bind_info on: the device calls it makes, in order; a failing
\* bind_acceleration_structure_memory returns before anything is recorded
generate_calls(fail) ==
    IF fail = "bind_acceleration_structure_memory"
    THEN <<"bind_acceleration_structure_memory">>
    ELSE <<"bind_acceleration_structure_memory", "cmd_build_acceleration_structure",
           "cmd_pipeline_barrier">>

NoBuffer == [created |-> FALSE]
NoAlloc == [acc_structure |-> 0]

\* the buffers one call of build creates for acc_structure and the device calls of its
\* generate; a buffer that was created holds its BufferType and the size it was built with
as_buffers(ty, acc_structure, instances, req, fail) ==
    LET sizes == compute_as_buffer_sizes(req)
        instances_size == IF ty = "TOP_LEVEL"
                          THEN Len(instances) * SizeOfVulkanGeometryInstance ELSE 0
        reached_generate == /\ Ran(fail, "result_buffer")
                            /\ (ty = "TOP_LEVEL" => Ran(fail, "instances_buffer"))
    IN  [acc_structure |-> acc_structure,
         ty |-> ty,
         req |-> req,
         scratch_buffer |-> IF Ran(fail, "scratch_buffer")
                            THEN [created |-> TRUE, ty |-> "RayTracing",
                                  size |-> sizes.scratch_size]
                            ELSE NoBuffer,
         result_buffer |-> IF Ran(fail, "result_buffer")
                           THEN [created |-> TRUE, ty |-> "RayTracing",
                                 size |-> sizes.result_size]
                           ELSE NoBuffer,
         instances_buffer |-> IF ty = "TOP_LEVEL" /\ Ran(fail, "instances_buffer")
                              THEN [created |-> TRUE, ty |-> "RayTracingInstance",
                                    size |-> instances_size]
                              ELSE NoBuffer,
         calls |-> IF reached_generate
                      /\ fail \notin {"get_acceleration_structure_handle", "copy_data"}
                   THEN generate_calls(fail)
                   ELSE <<>>,
         memory |-> IF fail = "none" THEN "result_buffer" ELSE "none"]

Owned == {bottom_level_as[k] : k \in DOMAIN bottom_level_as} \cup ({top_level_as} \ {0})

\* create_acceleration_structures, lines 241-247: the bottom-level structure; on Err
\* nothing owns the handle build created
BuildBottomLevel(fail, req) ==
    /\ bpc = "recording"
    /\ LET acc_structure == Cardinality(as_live) + 1
           r == as_build("BOTTOM_LEVEL", acc_structure, <<>>, fail)
       IN
       /\ as_alloc' = as_buffers("BOTTOM_LEVEL", acc_structure, <<>>, req, fail)
       /\ as_live' = IF r.created THEN as_live \cup {acc_structure} ELSE as_live
       /\ handle_reads' = handle_reads \o r.reads
       /\ cmds' = cmds \o r.commands
       /\ build_fail' = fail
       /\ failed_as' = IF ~r.ok /\ r.created THEN acc_structure ELSE 0
       /\ bottom_level_as' = IF r.ok THEN <<acc_structure>> ELSE <<>>
       /\ bpc' = IF r.ok THEN "bottom_built" ELSE "failed"
    /\ UNCHANGED <<frame_vars, ext_vars, pipeline, gpuq, cb_states, submitted, top_level_as, sbt, prog_id_size>>

\* create_acceleration_structures, lines 249-264: one Instance per bottom-level structure,
\* then the top-level structure; on Err the bottom_level_as vector is dropped, which destroys
\* the handles it owns
BuildTopLevel(fail, req) ==
    /\ bpc = "bottom_built"
    /\ LET acc_structure == Cardinality(as_live) + 1
           r == as_build("TOP_LEVEL", acc_structure, bottom_level_as, fail)
           live == IF r.created THEN as_live \cup {acc_structure} ELSE as_live
       IN
       /\ as_alloc' = as_buffers("TOP_LEVEL", acc_structure, bottom_level_as, req, fail)
       /\ as_live' = IF r.ok THEN live ELSE live \ Owned
       /\ handle_reads' = handle_reads \o r.reads
       /\ cmds' = cmds \o r.commands
       /\ build_fail' = fail
       /\ failed_as' = IF ~r.ok /\ r.created THEN acc_structure ELSE 0
       /\ top_level_as' = IF r.ok THEN acc_structure ELSE 0
       /\ bottom_level_as' = IF r.ok THEN bottom_level_as ELSE <<>>
       /\ bpc' = IF r.ok THEN "top_built" ELSE "failed"
    /\ UNCHANGED <<frame_vars, ext_vars, pipeline, gpuq, cb_states, submitted, sbt, prog_id_size>>

\* create_acceleration_structures, lines 266-270: end_single_time_commands(command_buffer)?;
\* on Err both AccelerationStructure values are dropped
EndBuildCommands(fail) ==
    /\ bpc = "top_built"
    /\ end_single_time_commands(cb_states, BuildCommandBuffer, fail)
    /\ IF fail = "none"
       THEN /\ bpc' = "structures_built"
            /\ UNCHANGED <<as_live, bottom_level_as, top_level_as, build_fail>>
       ELSE /\ bpc' = "failed"
            /\ build_fail' = fail
            /\ as_live' = as_live \ Owned
            /\ bottom_level_as' = <<>>
            /\ top_level_as' = 0
    /\ UNCHANGED <<frame_vars, ext_vars, as_alloc, pipeline, cmds, handle_reads, failed_as, sbt, prog_id_size>>

(***************************************************************************)
(* PipelineBuilder::build                                                  *)
(***************************************************************************)
SHADER_UNUSED_NV == -1

\* PipelineBuilder::add_shader_stage: the returned index is the number of STAGES pushed so
\* far; a group is pushed whether or not a shader is given. acc = [stages, groups, index].
add_shader_stage(acc, shader, stage) ==
    LET index == Len(acc.stages)
        unused == [ty |-> "TRIANGLES_HIT_GROUP", stage |-> "none",
                   general_shader |-> SHADER_UNUSED_NV, closest_hit_shader |-> SHADER_UNUSED_NV]
        group_info == IF shader = "none" THEN unused
                      ELSE IF stage = "CLOSEST_HIT_NV"
                           THEN [unused EXCEPT !.closest_hit_shader = index, !.stage = stage]
                           ELSE [unused EXCEPT !.ty = "GENERAL", !.general_shader = index,
                                               !.stage = stage]
    IN  [stages |-> IF shader = "none" THEN acc.stages ELSE Append(acc.stages, stage),
         groups |-> Append(acc.groups, group_info),
         index  |-> index]

NoPipeline == [built |-> FALSE]

\* PipelineBuilder::build with the four shader modules RayTracingPipelineBuilder::create_pipeline
\* passes (raygen, miss, shadow_miss, closesthit); the shadow hit group has no shader
pipeline_build ==
    LET a0 == [stages |-> <<>>, groups |-> <<>>, index |-> 0]
        a1 == add_shader_stage(a0, "raygen.spv", "RAYGEN_NV")
        a2 == add_shader_stage(a1, "miss.spv", "MISS_NV")
        a3 == add_shader_stage(a2, "shadow_miss.spv", "MISS_NV")
        a4 == add_shader_stage(a3, "closesthit.spv", "CLOSEST_HIT_NV")
        a5 == add_shader_stage(a4, "none", "empty")
    IN  [built |-> TRUE,
         shader_groups |-> a5.groups,
         ray_gen_index |-> a1.index,
         miss_index |-> a2.index,
         shadow_miss_index |-> a3.index,
         hit_group_index |-> a4.index,
         shadow_hit_group_index |-> a5.index]

CreatePipelineFails == {"none", "create_descriptor_set", "shader_module", "create_pipeline_layout",
                        "create_ray_tracing_pipelines"}

\* RayTracingPipelineBuilder::build after create_acceleration_structures: create_descriptor_set
\* and create_pipeline
CreatePipeline(fail) ==
    /\ bpc = "structures_built"
    /\ IF fail = "none"
       THEN /\ pipeline' = pipeline_build
            /\ bpc' = "pipeline_built"
            /\ UNCHANGED build_fail
       ELSE /\ bpc' = "failed"
            /\ build_fail' = fail
            /\ UNCHANGED pipeline
    /\ UNCHANGED <<frame_vars, ext_vars, as_alloc, gpuq, cmds, cb_states, submitted, as_live, bottom_level_as,
                   top_level_as, handle_reads, failed_as, sbt, prog_id_size>>

(***************************************************************************)
(* ShaderBindingTableBuilder::build                                        *)
(***************************************************************************)
\* let entry_size = (prog_id_size + (prog_id_size % 16)) as vk::DeviceSize; the u32 sum
\* stays far below 2^32 for every handle size up to MaxHandleSize
entry_size(size) == size + (size % 16)

\* let group_count: u32 = 3;
group_count == 3

\* the opaque handle the driver reports for shader group g of the pipeline
Handle(g) == <<"handle", g>>
Garbage == <<"garbage", 0>>
\* what a read of prog_id_size bytes outside shader_handle_storage can produce
HandleBytes == {Handle(g) : g \in 0 .. 4} \cup {Garbage}

\* get_ray_tracing_shader_group_handles(pipeline, 0, group_count, storage): the handles of
\* groups 0 .. group_count - 1, prog_id_size bytes each
get_ray_tracing_shader_group_handles(first_group, count) ==
    [g \in 0 .. (count - 1) |-> Handle(first_group + g)]

\* copy_shader_data: ptr::copy of prog_id_size bytes from storage + shader_index * prog_id_size;
\* the source range lies outside the vector when shader_index is not below its handle
\* count, and the bytes read then are undefined
copy_shader_data(shader_handle_storage, dst, shader_index, size, undefined) ==
    [shader_index |-> shader_index,
     src   |-> shader_index * size,
     dst   |-> dst,
     len   |-> size,
     bytes |-> IF shader_index \in DOMAIN shader_handle_storage
               THEN shader_handle_storage[shader_index] ELSE undefined]

ShaderBindingTableFails == {"none", "sbt_buffer", "get_ray_tracing_shader_group_handles",
                            "map_memory"}

BuildShaderBindingTable(fail, undefined) ==
    /\ bpc = "pipeline_built"
    /\ IF fail = "none"
       THEN LET e == entry_size(prog_id_size)
                ray_gen_entry_size == e
                miss_entry_size == e
                hit_group_entry_size == e
                sbt_size == ray_gen_entry_size + miss_entry_size + hit_group_entry_size
                storage == get_ray_tracing_shader_group_handles(0, group_count)
                c1 == copy_shader_data(storage, 0, pipeline.ray_gen_index, prog_id_size,
                                       undefined)
                c2 == copy_shader_data(storage, ray_gen_entry_size, pipeline.miss_index,
                                       prog_id_size, undefined)
                c3 == copy_shader_data(storage, ray_gen_entry_size + miss_entry_size,
                                       pipeline.hit_group_index, prog_id_size, undefined)
            IN  /\ sbt' = [built |-> TRUE,
                           ray_gen_entry_size |-> ray_gen_entry_size,
                           ray_gen_offset |-> 0,
                           miss_entry_size |-> miss_entry_size,
                           miss_offset |-> ray_gen_entry_size,
                           hit_group_entry_size |-> hit_group_entry_size,
                           hit_group_offset |-> ray_gen_entry_size + miss_entry_size,
                           sbt_size |-> sbt_size,
                           handles_fetched |-> group_count,
                           storage_len |-> group_count * prog_id_size,
                           copies |-> <<c1, c2, c3>>]
                /\ bpc' = "built"
                /\ UNCHANGED build_fail
       ELSE /\ bpc' = "failed"
            /\ build_fail' = fail
            /\ UNCHANGED sbt
    /\ UNCHANGED <<frame_vars, ext_vars, as_alloc, gpuq, cmds, cb_states, submitted, as_live, bottom_level_as,
                   top_level_as, handle_reads, failed_as, pipeline, prog_id_size>>

\* sequences over S of length 0..n
RECURSIVE SeqsUpTo(_, _)
SeqsUpTo(S, n) ==
    IF n = 0 THEN {<<>>}
    ELSE LET shorter == SeqsUpTo(S, n - 1)
         IN  shorter \cup {Append(q, x) : q \in {t \in shorter : Len(t) = n - 1}, x \in S}

(***************************************************************************)
(* VulkanGeometryInstance                                                  *)
(***************************************************************************)
\* a u32 is the set of the positions of its one bits, position 0 the least significant
BitPositions == 0 .. 31

\* the u32 with the value n, for 0 <= n < 2^31
Bits(n) == {b \in 0 .. 30 : (n \div (2 ^ b)) % 2 = 1}

\* 0x00ff_ffff
LOW_24 == Bits(16777215)

\* a << n on u32: the bits shifted beyond position 31 are lost
shl(a, n) == {b + n : b \in a} \cap BitPositions

\* let id = id & 0x00ff_ffff; self.instance_id_and_mask |= id;
set_id_unmasked(word, id) == word \cup Bits(id)
set_id(word, id) == word \cup (Bits(id) \cap LOW_24)

\* let mask = u32::from(mask); self.instance_id_and_mask |= mask << 24;
set_mask(word, mask) == word \cup shl(Bits(mask), 24)

\* let offset = offset & 0x00ff_ffff; self.instance_offset_and_flags |= offset;
set_offset(word, offset) == word \cup (Bits(offset) \cap LOW_24)

\* let flags = flags.as_raw() as u32; self.instance_offset_and_flags |= flags << 24;
set_flags(word, flags) == word \cup shl(Bits(flags), 24)

\* glm::Mat4 is a nalgebra matrix, stored column after column: as_slice() lists column 0
\* from row 0 to row 3, then column 1, and so on. m[r][c] is the entry of row r, column c.
as_slice(m) == [k \in 1 .. 16 |-> m[(k - 1) % 4][(k - 1) \div 4]]

\* let transform = &tlas.transform.as_slice()[0..12];
transform_of(m) == SubSeq(as_slice(m), 1, 12)

\* glm::identity()
identity == [r \in 0 .. 3 |-> [c \in 0 .. 3 |-> IF r = c THEN 1 ELSE 0]]

\* VulkanGeometryInstance::new: both words start as 0
VulkanGeometryInstance_new(transform, id, mask, offset, flags) ==
    [made |-> TRUE, transform |-> transform,
     id |-> id, mask |-> mask, offset |-> offset, flags |-> flags,
     instance_id_and_mask |-> set_mask(set_id({}, id), mask),
     instance_offset_and_flags |-> set_flags(set_offset({}, offset), flags)]

NoInstance == [made |-> FALSE]

\* AccelerationStructureBuilder::generate, the body of the loop over the instances:
\* let g_inst = VulkanGeometryInstance::new(...); the record of one instance is followed
NewGeometryInstance(Ms, Ids, Masks, Offsets, Flags) ==
    /\ ~g_inst.made
    /\ \E m \in Ms, id \in Ids, mask \in Masks, offset \in Offsets, flags \in Flags :
          /\ tlas' = [transform |-> m]
          /\ g_inst' = VulkanGeometryInstance_new(transform_of(m), id, mask, offset, flags)
    /\ UNCHANGED <<frame_vars, gpuq, build_vars, desc_vars, buffer_vars, setup_vars>>

(***************************************************************************)
(* PhysicalDeviceBuilder                                                   *)
(***************************************************************************)
\* the device extensions VulkanContextBuilder passes to with_extensions
RequiredExtensions == {"KhrSwapchain", "NvRayTracing"}

NoFamily == -1

\* PhysicalDeviceBuilder::find_queue_families: the loop over the families from index on;
\* families are 0-based, indices holds graphics_family and present_family so far
RECURSIVE find_queue_families_from(_, _, _)
find_queue_families_from(index, queue_families, indices) ==
    IF index >= Len(queue_families) THEN indices
    ELSE LET f == queue_families[index + 1]
             g == IF f.queue_count > 0 /\ f.graphics THEN index ELSE indices.graphics_family
             p == IF f.present THEN index ELSE indices.present_family
             next == [graphics_family |-> g, present_family |-> p]
         IN  IF g # NoFamily /\ p # NoFamily THEN next
             ELSE find_queue_families_from(index + 1, queue_families, next)

find_queue_families(device) ==
    find_queue_families_from(0, device.queue_families,
                             [graphics_family |-> NoFamily, present_family |-> NoFamily])

is_complete(indices) == indices.graphics_family # NoFamily /\ indices.present_family # NoFamily

check_device_extensions_support(device) == RequiredExtensions \subseteq device.extensions

\* PhysicalDeviceBuilder::is_device_suitable: "panic" when an unwrap meets Err; the
\* swapchain support query is unwrapped first, the extension query only when the
\* conjunction reaches it
is_device_suitable_any_queues(device) ==
    IF ~device.swapchain_query_ok THEN "panic"
    ELSE IF ~device.extensions_query_ok THEN "panic"
    ELSE IF /\ check_device_extensions_support(device)
            /\ device.formats > 0
            /\ device.present_modes > 0
            /\ device.sampler_anisotropy
         THEN "suitable" ELSE "unsuitable"
is_device_suitable(device) ==
    IF ~device.swapchain_query_ok THEN "panic"
    ELSE IF ~is_complete(find_queue_families(device)) THEN "unsuitable"
    ELSE IF ~device.extensions_query_ok THEN "panic"
    ELSE IF /\ check_device_extensions_support(device)
            /\ device.formats > 0
            /\ device.present_modes > 0
            /\ device.sampler_anisotropy
         THEN "suitable" ELSE "unsuitable"

\* physical_devices.into_iter().find(|device| self.is_device_suitable(*device)) from the
\* device at position index (0-based) on
RECURSIVE find_suitable_from(_, _)
find_suitable_from(index, physical_devices) ==
    IF index >= Len(physical_devices)
    THEN [outcome |-> "PhysicalDeviceCreationError", device |-> NoFamily]
    ELSE LET s == is_device_suitable(physical_devices[index + 1])
         IN  IF s = "panic" THEN [outcome |-> "panic", device |-> NoFamily]
             ELSE IF s = "suitable" THEN [outcome |-> "ok", device |-> index]
             ELSE find_suitable_from(index + 1, physical_devices)

\* PhysicalDeviceBuilder::build; enumerated is FALSE when enumerate_physical_devices fails
physical_device_build(enumerated, physical_devices) ==
    IF ~enumerated THEN [outcome |-> "enumerate_physical_devices", device |-> NoFamily]
    ELSE find_suitable_from(0, physical_devices)

(***************************************************************************)
(* QueueFamilyBuilder                                                      *)
(***************************************************************************)
\* .enumerate().find_map(...) from the family at position index (0-based) on
RECURSIVE queue_family_from(_, _)
queue_family_from(index, queue_families) ==
    IF index >= Len(queue_families) THEN NoFamily
    ELSE IF queue_families[index + 1].graphics /\ queue_families[index + 1].present THEN index
    ELSE queue_family_from(index + 1, queue_families)

\* QueueFamilyBuilder::build
queue_family_build_graphics_only(queue_families) ==
    LET G == {i \in 0 .. (Len(queue_families) - 1) : queue_families[i + 1].graphics}
        index == IF G = {} THEN NoFamily ELSE CHOOSE i \in G : \A j \in G : i <= j
    IN  [outcome |-> IF index = NoFamily THEN "QueueFamilyCreationError" ELSE "ok",
         family |-> index]
queue_family_build(queue_families) ==
    LET index == queue_family_from(0, queue_families)
    IN  [outcome |-> IF index = NoFamily THEN "QueueFamilyCreationError" ELSE "ok",
         family |-> index]

(***************************************************************************)
(* SurfaceFormatBuilder                                                    *)
(***************************************************************************)
\* let request_formats = vec![...]
request_formats == <<"B8G8R8A8_UNORM", "R8G8B8A8_UNORM", "B8G8R8_UNORM", "R8G8B8_UNORM">>
request_color_space == "SRGB_NONLINEAR"

\* formats.iter().find(|format| format.format == request_format && format.color_space ==
\* request_color_space) from position k (1-based) on; 0 when nothing is found
RECURSIVE find_format_from(_, _, _)
find_format_from(k, formats, request_format) ==
    IF k > Len(formats) THEN 0
    ELSE IF formats[k].format = request_format /\ formats[k].color_space = request_color_space
    THEN k
    ELSE find_format_from(k + 1, formats, request_format)

\* for request_format in request_formats { found = ...; if found.is_some() { break; } }
RECURSIVE find_requested_from(_, _)
find_requested_from(r, formats) ==
    IF r > Len(request_formats) THEN 0
    ELSE LET found_at == find_format_from(1, formats, request_formats[r])
         IN  IF found_at # 0 THEN found_at ELSE find_requested_from(r + 1, formats)

NoFormat == [format |-> "none", color_space |-> "none"]

\* SurfaceFormatBuilder::build; queried is FALSE when get_physical_device_surface_formats
\* fails. &formats[0] is evaluated before unwrap_or and panics on an empty list.
surface_format_build(queried, formats) ==
    IF ~queried THEN [outcome |-> "get_physical_device_surface_formats", format |-> NoFormat]
    ELSE IF Len(formats) = 1
    THEN IF formats[1].format = "UNDEFINED"
         THEN [outcome |-> "ok",
               format |-> [format |-> "B8G8R8A8_UNORM", color_space |-> "SRGB_NONLINEAR"]]
         ELSE [outcome |-> "ok", format |-> formats[1]]
    ELSE IF Len(formats) = 0 THEN [outcome |-> "panic", format |-> NoFormat]
    ELSE LET found_at == find_requested_from(1, formats)
         IN  [outcome |-> "ok",
              format |-> IF found_at # 0 THEN formats[found_at] ELSE formats[1]]

(***************************************************************************)
(* PresentModeBuilder                                                      *)
(***************************************************************************)
\* the loop of PresentModeBuilder::build from position k (1-based) on, result so far
RECURSIVE present_mode_from(_, _, _)
present_mode_from(k, present_modes, result) ==
    IF k > Len(present_modes) THEN result
    ELSE IF present_modes[k] = "MAILBOX" THEN present_modes[k]
    ELSE IF present_modes[k] = "IMMEDIATE"
    THEN present_mode_from(k + 1, present_modes, present_modes[k])
    ELSE present_mode_from(k + 1, present_modes, result)

\* PresentModeBuilder::build; queried is FALSE when
\* get_physical_device_surface_present_modes fails
present_mode_build_first_listed(queried, present_modes) ==
    IF ~queried THEN [outcome |-> "get_physical_device_surface_present_modes", mode |-> "none"]
    ELSE [outcome |-> "ok",
          mode |-> IF present_modes = <<>> THEN "FIFO" ELSE present_modes[1]]
present_mode_build(queried, present_modes) ==
    IF ~queried THEN [outcome |-> "get_physical_device_surface_present_modes", mode |-> "none"]
    ELSE [outcome |-> "ok", mode |-> present_mode_from(1, present_modes, "FIFO")]

(***************************************************************************)
(* DepthResourcesBuilder::transition_image_layout                          *)
(***************************************************************************)
ImageLayouts == {"UNDEFINED", "TRANSFER_DST_OPTIMAL", "TRANSFER_SRC_OPTIMAL",
                 "SHADER_READ_ONLY_OPTIMAL", "DEPTH_STENCIL_ATTACHMENT_OPTIMAL"}
DepthFormats == {"D32_SFLOAT", "D32_SFLOAT_S8_UINT", "D24_UNORM_S8_UINT"}

aspect_mask(format, new_layout) ==
    IF new_layout = "DEPTH_STENCIL_ATTACHMENT_OPTIMAL"
    THEN IF format = "D32_SFLOAT_S8_UINT" \/ format = "D24_UNORM_S8_UINT"
         THEN {"DEPTH", "STENCIL"} ELSE {"DEPTH"}
    ELSE {"COLOR"}

NoMasks == [supported |-> FALSE]

\* the (src_access_mask, dst_access_mask, src_stage, dst_stage) selection
access_and_stage_default(old_layout, new_layout) ==
    [supported |-> TRUE, src_access_mask |-> {}, dst_access_mask |-> {},
     src_stage |-> "TOP_OF_PIPE", dst_stage |-> "BOTTOM_OF_PIPE"]
access_and_stage(old_layout, new_layout) ==
    IF old_layout = "UNDEFINED"
       /\ (new_layout = "TRANSFER_DST_OPTIMAL" \/ new_layout = "TRANSFER_SRC_OPTIMAL")
    THEN [supported |-> TRUE, src_access_mask |-> {}, dst_access_mask |-> {"TRANSFER_WRITE"},
          src_stage |-> "TOP_OF_PIPE", dst_stage |-> "TRANSFER"]
    ELSE IF old_layout = "TRANSFER_DST_OPTIMAL" /\ new_layout = "SHADER_READ_ONLY_OPTIMAL"
    THEN [supported |-> TRUE, src_access_mask |-> {"TRANSFER_WRITE"},
          dst_access_mask |-> {"SHADER_READ"},
          src_stage |-> "TRANSFER", dst_stage |-> "FRAGMENT_SHADER"]
    ELSE IF old_layout = "UNDEFINED" /\ new_layout = "DEPTH_STENCIL_ATTACHMENT_OPTIMAL"
    THEN [supported |-> TRUE, src_access_mask |-> {},
          dst_access_mask |-> {"DEPTH_STENCIL_ATTACHMENT_READ",
                               "DEPTH_STENCIL_ATTACHMENT_WRITE"},
          src_stage |-> "TOP_OF_PIPE", dst_stage |-> "EARLY_FRAGMENT_TESTS"]
    ELSE NoMasks

TransitionFails == {"none", "begin_single_time_commands", "end_command_buffer", "queue_submit",
                    "queue_wait_idle"}

\* transition_image_layout: the barriers recorded, whether the command buffer was
\* submitted, and the value returned; fail names the driver call that returns Err
transition_image_layout(format, old_layout, new_layout, fail) ==
    LET m == access_and_stage(old_layout, new_layout)
        barrier == [old_layout |-> old_layout, new_layout |-> new_layout,
                    aspect_mask |-> aspect_mask(format, new_layout),
                    src_access_mask |-> m.src_access_mask,
                    dst_access_mask |-> m.dst_access_mask,
                    src_stage |-> m.src_stage, dst_stage |-> m.dst_stage]
    IN  IF fail = "begin_single_time_commands"
        THEN [recorded |-> <<>>, submitted |-> FALSE, outcome |-> fail]
        ELSE IF ~m.supported
        THEN [recorded |-> <<>>, submitted |-> FALSE,
              outcome |-> "DepthResourcesCreationError"]
        ELSE [recorded |-> <<barrier>>,
              submitted |-> fail \in {"none", "queue_wait_idle"},
              outcome |-> IF fail = "none" THEN "ok" ELSE fail]

(***************************************************************************)
(* BufferBuilder                                                           *)
(***************************************************************************)
BufferTypes == {"Index", "RayTracing", "RayTracingInstance", "ShaderBindingTable", "Staging",
                "Storage", "Uniform", "Vertex"}

\* BufferBuilder::build: usage flags by buffer type
usage(ty) ==
    CASE ty = "Index"   -> {"INDEX_BUFFER", "TRANSFER_DST", "STORAGE_BUFFER"}
      [] ty = "RayTracing" -> {"RAY_TRACING_NV"}
      [] ty = "RayTracingInstance" -> {"RAY_TRACING_NV"}
      [] ty = "ShaderBindingTable" -> {"TRANSFER_SRC"}
      [] ty = "Staging" -> {"TRANSFER_SRC"}
      [] ty = "Storage" -> {"STORAGE_BUFFER", "TRANSFER_DST"}
      [] ty = "Uniform" -> {"UNIFORM_BUFFER"}
      [] ty = "Vertex"  -> {"VERTEX_BUFFER", "TRANSFER_DST", "STORAGE_BUFFER"}

\* BufferBuilder::build: requested memory properties by buffer type
properties(ty) ==
    CASE ty = "Index"   -> {"DEVICE_LOCAL"}
      [] ty = "RayTracing" -> {"DEVICE_LOCAL"}
      [] ty = "RayTracingInstance" -> {"HOST_VISIBLE", "HOST_COHERENT"}
      [] ty = "ShaderBindingTable" -> {"HOST_VISIBLE"}
      [] ty = "Staging" -> {"HOST_VISIBLE", "HOST_COHERENT"}
      [] ty = "Storage" -> {"HOST_VISIBLE", "HOST_COHERENT"}
      [] ty = "Uniform" -> {"HOST_VISIBLE", "HOST_COHERENT"}
      [] ty = "Vertex"  -> {"DEVICE_LOCAL"}

MemoryPropertyFlags == {"DEVICE_LOCAL", "HOST_VISIBLE", "HOST_COHERENT"}

\* find_memory_type returning None
None == -1

\* type_filter & (1 << i) != 0
TypeBit(type_filter, i) == (type_filter \div (2 ^ i)) % 2 = 1

\* for i in 0..mem_properties.memory_type_count { if ... { return Some(i); } } None
RECURSIVE find_memory_type_from(_, _, _, _)
find_memory_type_from(i, types, type_filter, props) ==
    IF i >= Len(types) THEN None
    ELSE IF TypeBit(type_filter, i) /\ props \subseteq types[i + 1] THEN i
    ELSE find_memory_type_from(i + 1, types, type_filter, props)

find_memory_type_unfiltered(types, type_filter, props) ==
    find_memory_type_from(0, types, (2 ^ Len(types)) - 1, props)
find_memory_type(types, type_filter, props) ==
    find_memory_type_from(0, types, type_filter, props)

BufferBuildFails == {"none", "create_buffer", "allocate_memory", "bind_buffer_memory"}

\* memory freshly allocated holds no defined bytes
Uninitialized(size) == [k \in 1 .. size |-> -1]

\* BufferBuilder::build for a buffer of type ty and size bytes; type_filter is the
\* memory_type_bits the driver reports for it, fail the driver call that returns Err
buffer_build(ty, size, type_filter, fail) ==
    LET index == find_memory_type(memory_types, type_filter, properties(ty))
        searched == fail # "create_buffer"
        error == IF fail = "create_buffer" THEN fail
                 ELSE IF index = None THEN "VertexBufferCreationError"
                 ELSE fail
    IN  [ok     |-> error = "none",
         error  |-> error,
         found  |-> IF searched
                    THEN [called |-> TRUE, type_filter |-> type_filter,
                          properties |-> properties(ty), index |-> index]
                    ELSE found,
         buffer |-> [ty |-> ty, usage |-> usage(ty), buffer_size |-> size,
                     memory_type_index |-> index, content |-> Uninitialized(size),
                     destroyed |-> FALSE]]

\* impl Drop for Buffer
drop(b) == [b EXCEPT !.destroyed = TRUE]

(***************************************************************************)
(* Writes through mapped memory                                            *)
(***************************************************************************)
NoMapped ==
    [built |-> FALSE, ty |-> "none", flags |-> {}, written |-> FALSE, data |-> <<>>,
     host |-> <<>>, device |-> <<>>, read |-> <<>>]

\* the buffer types whose buffers copy_data is called on: mat_buffer (Storage),
\* staging_buffer, the instances buffer, the uniform buffer
CopyDataTypes == {"Storage", "Staging", "RayTracingInstance", "Uniform"}

\* BufferBuilder::build(ty, size): the memory comes from the first memory type that has
\* the properties of ty
MappedBuild(ty, size, type_filter) ==
    /\ ~mapped.built
    /\ LET r == buffer_build(ty, size, type_filter, "none") IN
        /\ r.ok
        /\ mapped' = [NoMapped EXCEPT !.built = TRUE, !.ty = ty,
                                      !.flags = memory_types[r.buffer.memory_type_index + 1],
                                      !.host = r.buffer.content,
                                      !.device = r.buffer.content]
    /\ UNCHANGED <<frame_vars, gpuq, build_vars, buffer_vars, setup_vars, inst_vars, ds,
                   life_vars, geom>>

\* map_memory, ptr::copy, unmap_memory with no flush_mapped_memory_ranges: the host sees
\* its write; the device sees it when the memory is HOST_COHERENT, and otherwise may or
\* may not (visible)
mapped_write(m, data, visible) ==
    [m EXCEPT !.written = TRUE, !.data = data, !.host = data,
              !.device = IF "HOST_COHERENT" \in m.flags \/ visible THEN data ELSE @]

\* Buffer::copy_data(buffer)
CopyData(data, visible) ==
    /\ mapped.built
    /\ ~mapped.written
    /\ mapped.ty \in CopyDataTypes
    /\ Len(data) = Len(mapped.host)
    /\ mapped' = mapped_write(mapped, data, visible)
    /\ UNCHANGED <<frame_vars, gpuq, build_vars, buffer_vars, setup_vars, inst_vars, ds,
                   life_vars, geom>>

\* ShaderBindingTableBuilder::build: the three copy_shader_data calls between map_memory
\* and unmap_memory on the buffer of type ShaderBindingTable
FillShaderBindingTable(data, visible) ==
    /\ mapped.built
    /\ ~mapped.written
    /\ mapped.ty = "ShaderBindingTable"
    /\ Len(data) = Len(mapped.host)
    /\ mapped' = mapped_write(mapped, data, visible)
    /\ UNCHANGED <<frame_vars, gpuq, build_vars, buffer_vars, setup_vars, inst_vars, ds,
                   life_vars, geom>>

\* the host reads the buffer back through a mapping
ReadBack ==
    /\ mapped.written
    /\ mapped.read = <<>>
    /\ mapped' = [mapped EXCEPT !.read = mapped.host]
    /\ UNCHANGED <<frame_vars, gpuq, build_vars, buffer_vars, setup_vars, inst_vars, ds,
                   life_vars, geom>>

(***************************************************************************)
(* The index buffer of a geometry and its description                      *)
(***************************************************************************)
MaxIndices == 3    \* a geometry is given 0..MaxIndices indices
SizeOfU32 == 4     \* mem::size_of::<u32>()

\* the u32 values an index takes
IndexValues == {0, 1, 65536}

\* the bytes of a u32 in memory, least significant first
to_le_bytes(x) == <<x % 256, (x \div 256) % 256, (x \div 65536) % 256, (x \div 16777216) % 256>>

\* indices.as_ptr() as *const c_void: the SizeOfU32 * len bytes behind the slice
as_bytes(indices) ==
    [k \in 1 .. SizeOfU32 * Len(indices) |->
        to_le_bytes(indices[((k - 1) \div SizeOfU32) + 1])[((k - 1) % SizeOfU32) + 1]]

\* the width in bytes of an element of vk::IndexType
IndexWidth(index_type) == IF index_type = "UINT16" THEN 2 ELSE 4

NoGeometry ==
    [stage |-> "builder", indices |-> <<>>, index_buffer |-> <<>>, index_count |-> 0,
     index_offset |-> 0, description |-> [index_type |-> "none", index_count |-> 0,
                                          index_offset |-> 0],
     read |-> <<>>]

\* GeometryInstanceBuilder::with_indices
with_indices(more) ==
    /\ geom.stage = "builder"
    /\ more # <<>>
    /\ Len(geom.indices) + Len(more) <= MaxIndices
    /\ geom' = [geom EXCEPT !.indices = @ \o more]
    /\ UNCHANGED <<frame_vars, gpuq, build_vars, buffer_vars, setup_vars, inst_vars, ds,
                   life_vars, mapped>>

\* GeometryInstanceBuilder::create_index_buffer: a buffer of size bytes filled from indices
create_index_buffer(indices) ==
    LET size == SizeOfU32 * Len(indices) IN SubSeq(as_bytes(indices), 1, size)

\* GeometryInstanceBuilder::build, as far as the index buffer goes
GeometryInstanceBuild(fail) ==
    /\ geom.stage = "builder"
    /\ IF fail
       THEN geom' = [geom EXCEPT !.stage = "failed"]
       ELSE geom' = [geom EXCEPT !.stage = "built",
                                 !.index_buffer = create_index_buffer(geom.indices),
                                 !.index_count = Len(geom.indices),
                                 !.index_offset = 0]
    /\ UNCHANGED <<frame_vars, gpuq, build_vars, buffer_vars, setup_vars, inst_vars, ds,
                   life_vars, mapped>>

\* BottomLevelAccelerationStructureBuilder::build: the index fields of GeometryTrianglesNV
bottom_level_build(index_offset, index_count) ==
    [index_type |-> "UINT16", index_count |-> index_count, index_offset |-> index_offset]

\* RayTracingPipelineBuilder::create_bottom_level_as
create_bottom_level_as ==
    /\ geom.stage = "built"
    /\ geom' = [geom EXCEPT !.stage = "described",
                            !.description = bottom_level_build(geom.index_offset, geom.index_count)]
    /\ UNCHANGED <<frame_vars, gpuq, build_vars, buffer_vars, setup_vars, inst_vars, ds,
                   life_vars, mapped>>

\* element k of a buffer read as an index of width bytes, least significant byte first;
\* a byte past the end of the buffer reads as 0
read_index(bytes, offset, k, width) ==
    LET at(j) == LET pos == offset + (k - 1) * width + j + 1
                 IN  IF j < width /\ pos <= Len(bytes) THEN bytes[pos] ELSE 0
    IN  at(0) + 256 * at(1) + 65536 * at(2) + 16777216 * at(3)

\* the acceleration-structure build reads index_count indices of index_type from the buffer
ReadIndices ==
    /\ geom.stage = "described"
    /\ geom' = [geom EXCEPT !.stage = "read",
                            !.read = [k \in 1 .. geom.description.index_count |->
                                        read_index(geom.index_buffer, geom.description.index_offset,
                                                   k, IndexWidth(geom.description.index_type))]]
    /\ UNCHANGED <<frame_vars, gpuq, build_vars, buffer_vars, setup_vars, inst_vars, ds,
                   life_vars, mapped>>

(***************************************************************************)
(* VulkanContext::create_buffer                                            *)
(***************************************************************************)
Staging == 1       \* index in buffers of the staging buffer of the call
Destination == 2   \* index in buffers of the buffer the call returns

NoArg == [ty |-> "none", size |-> 0, data |-> <<>>]
NoFind == [called |-> FALSE]

\* let staging_buffer = BufferBuilder::new(self).with_type(Staging).with_size(size).build()?
CreateBufferStaging(ty, size, data, type_filter, fail) ==
    /\ cpc = "idle"
    /\ arg' = [ty |-> ty, size |-> size, data |-> data]
    /\ LET r == buffer_build("Staging", size, type_filter, fail) IN
        /\ found' = r.found
        /\ IF r.ok
           THEN cpc' = "staging" /\ buffers' = Append(buffers, r.buffer)
                /\ UNCHANGED create_error
           ELSE cpc' = "failed" /\ create_error' = r.error /\ UNCHANGED buffers
    /\ UNCHANGED <<frame_vars, gpuq, build_vars, desc_vars, setup_vars, inst_vars, memory_types, pending>>

\* Buffer::copy_data: map_memory, ptr::copy of buffer_size bytes, unmap_memory
copy_data(b, data) == [b EXCEPT !.content = [k \in 1 .. b.buffer_size |-> data[k]]]

\* staging_buffer.copy_data(data)?
CreateBufferCopyData(ok) ==
    /\ cpc = "staging"
    /\ IF ok
       THEN /\ buffers' = [buffers EXCEPT ![Staging] = copy_data(@, arg.data)]
            /\ cpc' = "staged"
            /\ UNCHANGED create_error
       ELSE /\ buffers' = [buffers EXCEPT ![Staging] = drop(@)]
            /\ cpc' = "failed"
            /\ create_error' = "map_memory"
    /\ UNCHANGED <<frame_vars, gpuq, build_vars, desc_vars, setup_vars, inst_vars, memory_types, arg, pending, found>>

\* let buffer = BufferBuilder::new(self).with_type(ty).with_size(size).build()?
CreateBufferDestination(type_filter, fail) ==
    /\ cpc = "staged"
    /\ LET r == buffer_build(arg.ty, arg.size, type_filter, fail) IN
        /\ found' = r.found
        /\ IF r.ok
           THEN cpc' = "destination" /\ buffers' = Append(buffers, r.buffer)
                /\ UNCHANGED create_error
           ELSE cpc' = "failed" /\ create_error' = r.error
                /\ buffers' = [buffers EXCEPT ![Staging] = drop(@)]
    /\ UNCHANGED <<frame_vars, gpuq, build_vars, desc_vars, setup_vars, inst_vars, memory_types, arg, pending>>

\* vk::BufferCopy::builder().size(size): offsets 0
copy_region(size) == [src_offset |-> 0, dst_offset |-> 0, size |-> size]

CopyBufferFails == {"none", "allocate_command_buffers", "begin_command_buffer",
                    "end_command_buffer", "queue_submit"}

\* CommandBuffers::copy_buffer up to queue_submit: begin_single_time_commands,
\* cmd_copy_buffer, end_command_buffer, queue_submit with a null fence
CopyBufferSubmit(fail) ==
    /\ cpc = "destination"
    /\ IF fail = "none"
       THEN /\ pending' = Append(pending, [src |-> Staging, dst |-> Destination,
                                           region |-> copy_region(arg.size)])
            /\ cpc' = "submitted"
            /\ UNCHANGED <<buffers, create_error>>
       ELSE /\ buffers' = [k \in DOMAIN buffers |-> drop(buffers[k])]
            /\ cpc' = "failed"
            /\ create_error' = fail
            /\ UNCHANGED pending
    /\ UNCHANGED <<frame_vars, gpuq, build_vars, desc_vars, setup_vars, inst_vars, memory_types, arg, found>>

\* vkCmdCopyBuffer is defined only for a live source created with TRANSFER_SRC and a live
\* destination created with TRANSFER_DST
CopyDefined(c) ==
    /\ ~buffers[c.src].destroyed /\ "TRANSFER_SRC" \in buffers[c.src].usage
    /\ ~buffers[c.dst].destroyed /\ "TRANSFER_DST" \in buffers[c.dst].usage

\* the device executes the oldest submitted copy; an undefined copy may or may not write
ExecuteCopy(written) ==
    /\ pending # <<>>
    /\ LET c == Head(pending) IN
        /\ CopyDefined(c) => written
        /\ buffers' = IF written /\ ~buffers[c.dst].destroyed
                      THEN [buffers EXCEPT ![c.dst].content =
                              [k \in DOMAIN @ |->
                                 IF k <= c.region.size THEN buffers[c.src].content[k]
                                 ELSE @[k]]]
                      ELSE buffers
    /\ pending' = Tail(pending)
    /\ UNCHANGED <<frame_vars, gpuq, build_vars, desc_vars, setup_vars, inst_vars, cpc, memory_types, arg, found, create_error>>

\* Device::queue_wait_idle returns Ok only when the queue has executed every submission
queue_idle(queue) == queue = <<>>

\* CommandBuffers::copy_buffer from queue_wait_idle on, and the return of create_buffer:
\* the staging buffer is dropped at the end of the function; on Err both buffers are dropped
CopyBufferReturn(ok) ==
    /\ cpc = "submitted"
    /\ IF ok
       THEN /\ queue_idle(pending)
            /\ buffers' = [buffers EXCEPT ![Staging] = drop(@)]
            /\ cpc' = "returned"
            /\ UNCHANGED create_error
       ELSE /\ buffers' = [k \in DOMAIN buffers |-> drop(buffers[k])]
            /\ cpc' = "failed"
            /\ create_error' = "queue_wait_idle"
    /\ UNCHANGED <<frame_vars, gpuq, build_vars, desc_vars, setup_vars, inst_vars, memory_types, arg, pending, found>>

(***************************************************************************)
(* VulkanContextBuilder::build: the selections and the depth resources     *)
(***************************************************************************)
NoError == [stage |-> "none", outcome |-> "none"]
NoBarriers == [recorded |-> <<>>, submitted |-> FALSE, outcome |-> "none"]

\* let physical_device = self.get_physical_device(&instance, &surface)?;
SelectPhysicalDevice(enumerated, physical_devices) ==
    /\ spc = "start"
    /\ reported' = physical_devices
    /\ LET r == physical_device_build(enumerated, physical_devices) IN
        /\ physical_device' = r.device
        /\ IF r.outcome = "ok"
           THEN spc' = "physical_device" /\ UNCHANGED setup_error
           ELSE spc' = "failed"
                /\ setup_error' = [stage |-> "physical_device", outcome |-> r.outcome]
    /\ UNCHANGED <<frame_vars, gpuq, build_vars, desc_vars, buffer_vars, inst_vars, queue_family, surface_format,
                   present_mode, barriers>>

\* let queue_family = self.get_queue_family(&instance, &surface, physical_device)?;
SelectQueueFamily(queue_families) ==
    /\ spc = "physical_device"
    /\ reported' = queue_families
    /\ LET r == queue_family_build(queue_families) IN
        /\ queue_family' = r.family
        /\ IF r.outcome = "ok"
           THEN spc' = "queue_family" /\ UNCHANGED setup_error
           ELSE spc' = "failed"
                /\ setup_error' = [stage |-> "queue_family", outcome |-> r.outcome]
    /\ UNCHANGED <<frame_vars, gpuq, build_vars, desc_vars, buffer_vars, inst_vars, physical_device, surface_format,
                   present_mode, barriers>>

\* let surface_format = self.find_surface_format(&surface, physical_device)?;
SelectSurfaceFormat(queried, formats) ==
    /\ spc = "queue_family"
    /\ reported' = formats
    /\ LET r == surface_format_build(queried, formats) IN
        /\ surface_format' = r.format
        /\ IF r.outcome = "ok"
           THEN spc' = "surface_format" /\ UNCHANGED setup_error
           ELSE spc' = "failed"
                /\ setup_error' = [stage |-> "surface_format", outcome |-> r.outcome]
    /\ UNCHANGED <<frame_vars, gpuq, build_vars, desc_vars, buffer_vars, inst_vars, physical_device, queue_family,
                   present_mode, barriers>>

\* let present_mode = self.get_present_mode(&surface, physical_device)?;
SelectPresentMode(queried, present_modes) ==
    /\ spc = "surface_format"
    /\ reported' = present_modes
    /\ LET r == present_mode_build(queried, present_modes) IN
        /\ present_mode' = r.mode
        /\ IF r.outcome = "ok"
           THEN spc' = "present_mode" /\ UNCHANGED setup_error
           ELSE spc' = "failed"
                /\ setup_error' = [stage |-> "present_mode", outcome |-> r.outcome]
    /\ UNCHANGED <<frame_vars, gpuq, build_vars, desc_vars, buffer_vars, inst_vars, physical_device, queue_family,
                   surface_format, barriers>>

CreateObjectsFails == {"none", "create_logical_device", "create_command_buffers",
                       "create_descriptor_pool", "create_swapchain", "create_render_pass",
                       "create_image_views"}

\* the logical device, command buffers, descriptor pool, swapchain, render pass and image
\* views, created from the selections
CreateDeviceObjects(fail) ==
    /\ spc = "present_mode"
    /\ reported' = <<>>
    /\ IF fail = "none"
       THEN spc' = "image_views" /\ UNCHANGED setup_error
       ELSE spc' = "failed" /\ setup_error' = [stage |-> "device_objects", outcome |-> fail]
    /\ UNCHANGED <<frame_vars, gpuq, build_vars, desc_vars, buffer_vars, inst_vars, physical_device, queue_family,
                   surface_format, present_mode, barriers>>

\* transition_image_layout(image, format, old_layout, new_layout) as create_depth_resources
\* reaches it; DepthResourcesBuilder::build passes UNDEFINED and
\* DEPTH_STENCIL_ATTACHMENT_OPTIMAL, the function accepts any pair of layouts
TransitionImageLayout(format, old_layout, new_layout, fail) ==
    /\ spc = "image_views"
    /\ reported' = [format |-> format, old_layout |-> old_layout, new_layout |-> new_layout]
    /\ LET r == transition_image_layout(format, old_layout, new_layout, fail) IN
        /\ barriers' = r
        /\ IF r.outcome = "ok"
           THEN spc' = "depth_resources" /\ UNCHANGED setup_error
           ELSE spc' = "failed"
                /\ setup_error' = [stage |-> "depth_resources", outcome |-> r.outcome]
    /\ UNCHANGED <<frame_vars, gpuq, build_vars, desc_vars, buffer_vars, inst_vars, physical_device, queue_family,
                   surface_format, present_mode>>

\* before VulkanContextBuilder::build has selected anything
InitSetup ==
    /\ spc = "start"
    /\ reported = <<>>
    /\ physical_device = NoFamily
    /\ queue_family = NoFamily
    /\ surface_format = NoFormat
    /\ present_mode = "none"
    /\ barriers = NoBarriers
    /\ setup_error = NoError

InitBuffers(types) ==
    /\ cpc = "idle"
    /\ memory_types = types
    /\ buffers = <<>>
    /\ arg = NoArg
    /\ pending = <<>>
    /\ found = NoFind
    /\ create_error = "none"

\* a device with one device-local and one host-visible, host-coherent memory type
InitExt(d) ==
    /\ InitBuffers(<<{"DEVICE_LOCAL"}, {"HOST_VISIBLE", "HOST_COHERENT"}>>)
    /\ InitSetup
    /\ g_inst = NoInstance
    /\ tlas = [transform |-> identity]
    /\ ds = d
    /\ td = NoTeardown
    /\ bld = NoBuilder
    /\ mapped = NoMapped
    /\ geom = NoGeometry

(***************************************************************************)
(* Specification of the frame cycle.                                       *)
(***************************************************************************)
NoTable == [built |-> FALSE]

InitBuild ==
    /\ bpc = "start"
    /\ cmds = <<>>
    /\ cb_states = <<>>
    /\ submitted = <<>>
    /\ as_live = {}
    /\ bottom_level_as = <<>>
    /\ top_level_as = 0
    /\ handle_reads = <<>>
    /\ build_fail = "none"
    /\ failed_as = 0
    /\ pipeline = NoPipeline
    /\ sbt = NoTable
    /\ as_alloc = NoAlloc
    /\ prog_id_size = 0

\* VulkanContextBuilder::build and CommandBuffersBuilder::build: frame_index 0, image_index 0,
\* fences created SIGNALED, command buffers freshly allocated
InitFrames(count) ==
    /\ frames_count = count
    /\ frame_index = 0
    /\ image_index = 0
    /\ fences = [i \in 0 .. (count - 1) |-> TRUE]
    /\ command_buffers = [i \in 0 .. (count - 1) |-> "initial"]
    /\ acquired = {}
    /\ gpuq = <<>>
    /\ ev = <<>>
    /\ waits = [i \in 0 .. (count - 1) |-> 0]
    /\ resets = [i \in 0 .. (count - 1) |-> 0]
    /\ submits = [i \in 0 .. (count - 1) |-> 0]
    /\ failed_at = "none"
    /\ pc = "idle"

\* the frames run on a constructed pipeline: its descriptor set is the one
\* RayTracingPipelineBuilder::build created, for a scene with one texture
Init ==
    /\ path \in {"raster", "raytrace"}
    /\ \E count \in 1 .. MaxFrames : InitFrames(count)
    /\ InitBuild
    /\ InitExt(descriptor_set_build("vulkan_ray_tracing", 1, {}))

Next ==
    \/ \E ok \in BOOLEAN : UpdateUniformBuffer(ok)
    \/ \E fail \in FrameBeginFails, img \in Images : FrameBegin(fail, img)
    \/ DrawRaster
    \/ \E fail \in SingleTimeFails,
          garbled \in SUBSET Temporaries("vulkan_ray_tracing", "update_render_target") :
          BeginDrawBarrier(fail, garbled)
    \/ \E fail \in SingleTimeFails : DrawRayTracing(fail)
    \/ \E fail \in FrameEndFails : FrameEnd(fail)
    \/ \E ok \in BOOLEAN : FramePresent(ok)
    \/ GpuComplete

Spec == Init /\ [][Next]_vars

(***************************************************************************)
(* Specification of buffer creation.                                       *)
(***************************************************************************)
MaxMemoryTypes == 2   \* memory_type_count ranges over 0..MaxMemoryTypes
MaxBufferSize == 1    \* buffer sizes range over 1..MaxBufferSize
Bytes == {0, 1}

\* the property flags a memory type of the device can have
MemoryTypeFlags == {{"DEVICE_LOCAL"}, {"HOST_VISIBLE"}, {"HOST_VISIBLE", "HOST_COHERENT"},
                    MemoryPropertyFlags}
\* the memory-type tables a device can report
DeviceMemoryTypes == SeqsUpTo(MemoryTypeFlags, MaxMemoryTypes)
\* memory_type_bits: one bit per memory type
TypeFilters == 0 .. ((2 ^ MaxMemoryTypes) - 1)
\* the byte sequences passed to create_buffer
SourceData == SeqsUpTo(Bytes, MaxBufferSize) \ {<<>>}

InitBuf ==
    /\ path = "raster"
    /\ InitFrames(2)
    /\ InitBuild
    /\ InitSetup
    /\ g_inst = NoInstance
    /\ tlas = [transform |-> identity]
    /\ ds = NoDescriptorSet
    /\ td = NoTeardown
    /\ bld = NoBuilder
    /\ mapped = NoMapped
    /\ geom = NoGeometry
    /\ \E types \in DeviceMemoryTypes : InitBuffers(types)

NextBuf ==
    \/ \E ty \in BufferTypes, data \in SourceData,
          type_filter \in TypeFilters, fail \in BufferBuildFails :
          CreateBufferStaging(ty, Len(data), data, type_filter, fail)
    \/ \E ok \in BOOLEAN : CreateBufferCopyData(ok)
    \/ \E type_filter \in TypeFilters, fail \in BufferBuildFails :
          CreateBufferDestination(type_filter, fail)
    \/ \E fail \in CopyBufferFails : CopyBufferSubmit(fail)
    \/ \E written \in BOOLEAN : ExecuteCopy(written)
    \/ \E ok \in BOOLEAN : CopyBufferReturn(ok)

SpecBuf == InitBuf /\ [][NextBuf]_vars

(***************************************************************************)
(* Specification of the mapped writes.                                     *)
(***************************************************************************)
InitMap ==
    /\ path = "raster"
    /\ InitFrames(2)
    /\ InitBuild
    /\ InitSetup
    /\ g_inst = NoInstance
    /\ tlas = [transform |-> identity]
    /\ ds = NoDescriptorSet
    /\ td = NoTeardown
    /\ bld = NoBuilder
    /\ mapped = NoMapped
    /\ geom = NoGeometry
    /\ \E types \in DeviceMemoryTypes : InitBuffers(types)

NextMap ==
    \/ \E ty \in BufferTypes, size \in 1 .. MaxBufferSize, type_filter \in TypeFilters :
          MappedBuild(ty, size, type_filter)
    \/ \E data \in SourceData, visible \in BOOLEAN : CopyData(data, visible)
    \/ \E data \in SourceData, visible \in BOOLEAN : FillShaderBindingTable(data, visible)
    \/ ReadBack

SpecMap == InitMap /\ [][NextMap]_vars

(***************************************************************************)
(* Specification of the geometry description.                              *)
(***************************************************************************)
InitGeom ==
    /\ path = "raytrace"
    /\ InitFrames(2)
    /\ InitBuild
    /\ InitBuffers(<<{"DEVICE_LOCAL"}, {"HOST_VISIBLE", "HOST_COHERENT"}>>)
    /\ InitSetup
    /\ g_inst = NoInstance
    /\ tlas = [transform |-> identity]
    /\ ds = NoDescriptorSet
    /\ td = NoTeardown
    /\ bld = NoBuilder
    /\ mapped = NoMapped
    /\ geom = NoGeometry

NextGeom ==
    \/ \E more \in SeqsUpTo(IndexValues, MaxIndices) : with_indices(more)
    \/ \E fail \in BOOLEAN : GeometryInstanceBuild(fail)
    \/ create_bottom_level_as
    \/ ReadIndices

SpecGeom == InitGeom /\ [][NextGeom]_vars

(***************************************************************************)
(* Specification of the context construction.                              *)
(***************************************************************************)
MaxDevices == 2    \* enumerate_physical_devices reports 0..MaxDevices devices
MaxFamilies == 2   \* a device reports 0..MaxFamilies queue families
MaxFormats == 2    \* the surface reports 0..MaxFormats formats
MaxModes == 2      \* the surface reports 0..MaxModes present modes

\* a queue family as the driver reports it for the surface
FamilyKinds ==
    [queue_count : {1}, graphics : BOOLEAN, present : BOOLEAN]
       \cup {[queue_count |-> 0, graphics |-> TRUE, present |-> TRUE]}
FamilyLists == SeqsUpTo(FamilyKinds, MaxFamilies)

GraphicsPresent == [queue_count |-> 1, graphics |-> TRUE, present |-> TRUE]
GraphicsOnly == [queue_count |-> 1, graphics |-> TRUE, present |-> FALSE]
PresentOnly == [queue_count |-> 1, graphics |-> FALSE, present |-> TRUE]

\* a device that passes every test of is_device_suitable
SuitableDevice ==
    [queue_families |-> <<GraphicsPresent>>,
     extensions |-> RequiredExtensions \cup {"KhrMaintenance3"},
     formats |-> 1, present_modes |-> 1, sampler_anisotropy |-> TRUE,
     swapchain_query_ok |-> TRUE, extensions_query_ok |-> TRUE]

\* the devices enumerated: the suitable one and the ones differing from it in one respect
DeviceKinds ==
    {SuitableDevice,
     [SuitableDevice EXCEPT !.queue_families = <<GraphicsOnly, PresentOnly>>],
     [SuitableDevice EXCEPT !.queue_families = <<PresentOnly>>],
     [SuitableDevice EXCEPT !.queue_families = <<GraphicsOnly>>],
     [SuitableDevice EXCEPT !.queue_families = <<>>],
     [SuitableDevice EXCEPT !.extensions = {"KhrSwapchain"}],
     [SuitableDevice EXCEPT !.formats = 0],
     [SuitableDevice EXCEPT !.present_modes = 0],
     [SuitableDevice EXCEPT !.sampler_anisotropy = FALSE],
     [SuitableDevice EXCEPT !.swapchain_query_ok = FALSE],
     [SuitableDevice EXCEPT !.extensions_query_ok = FALSE]}
DeviceLists == SeqsUpTo(DeviceKinds, MaxDevices)

SurfaceFormats ==
    [format : {"UNDEFINED", "B8G8R8A8_UNORM", "R8G8B8A8_UNORM", "B8G8R8_UNORM", "R8G8B8_UNORM",
               "R5G6B5_UNORM_PACK16"},
     color_space : {"SRGB_NONLINEAR", "EXTENDED_SRGB_LINEAR_EXT"}]
FormatLists == SeqsUpTo(SurfaceFormats, MaxFormats)

PresentModes == {"IMMEDIATE", "MAILBOX", "FIFO", "FIFO_RELAXED"}
ModeLists == SeqsUpTo(PresentModes, MaxModes)

InitSel ==
    /\ path = "raster"
    /\ InitFrames(2)
    /\ InitBuild
    /\ InitBuffers(<<>>)
    /\ InitSetup
    /\ g_inst = NoInstance
    /\ tlas = [transform |-> identity]
    /\ ds = NoDescriptorSet
    /\ td = NoTeardown
    /\ bld = NoBuilder
    /\ mapped = NoMapped
    /\ geom = NoGeometry

NextSel ==
    \/ \E enumerated \in BOOLEAN, physical_devices \in DeviceLists :
          SelectPhysicalDevice(enumerated, physical_devices)
    \/ \E queue_families \in FamilyLists : SelectQueueFamily(queue_families)
    \/ \E queried \in BOOLEAN, formats \in FormatLists : SelectSurfaceFormat(queried, formats)
    \/ \E queried \in BOOLEAN, present_modes \in ModeLists :
          SelectPresentMode(queried, present_modes)
    \/ \E fail \in CreateObjectsFails : CreateDeviceObjects(fail)
    \/ \E format \in DepthFormats, old_layout \in ImageLayouts, new_layout \in ImageLayouts,
          fail \in TransitionFails :
          TransitionImageLayout(format, old_layout, new_layout, fail)

SpecSel == InitSel /\ [][NextSel]_vars

(***************************************************************************)
(* Specification of the instance records.                                  *)
(***************************************************************************)
\* u32 values around the 24-bit boundary, up to 2^31 - 1
InstanceWords == {0, 1, 255, 256, 16777215, 16777216, 16777217, 33554432, 2147483647}
\* u8 values
InstanceMasks == {0, 1, 127, 128, 255}
\* raw vk::GeometryInstanceFlagsNV values, as u32
InstanceFlags == {0, 1, 15, 255, 256, 257, 2147483647}

InitInst ==
    /\ path = "raytrace"
    /\ InitFrames(2)
    /\ InitBuild
    /\ InitExt(NoDescriptorSet)

\* the largest entry of a transform
MaxEntry == 2
\* 4x4 transforms: the identity with one entry replaced
Transforms ==
    {[identity EXCEPT ![r][c] = v] : r \in 0 .. 3, c \in 0 .. 3, v \in 0 .. MaxEntry}

NextInst ==
    NewGeometryInstance(Transforms, InstanceWords, InstanceMasks, InstanceWords, InstanceFlags)

SpecInst == InitInst /\ [][NextInst]_vars

(***************************************************************************)
(* Specification of the descriptor sets.                                   *)
(***************************************************************************)
MaxTextures == 2      \* geometry_instance.textures.len() ranges over 0..MaxTextures
MaxUpdates == 2       \* update_render_target calls followed per descriptor set

\* what update_render_target is called with: vulkan_ray_tracing passes the view of the
\* current back buffer, vulkan_helpers RayTracingPipeline::draw passes vk::ImageView::null()
Targets(crate) ==
    IF crate = "vulkan_ray_tracing" THEN {BackBufferView(img) : img \in Images}
    ELSE {"null"}

\* RayTracingPipeline::begin_draw / draw: the call of update_render_target alone
UpdateRenderTarget(target, garbled) ==
    /\ ds.built
    /\ ds.updates < MaxUpdates
    /\ ds' = [update_render_target(ds, target, garbled) EXCEPT !.updates = @ + 1]
    /\ UNCHANGED <<frame_vars, gpuq, build_vars, buffer_vars, setup_vars, inst_vars, life_vars, more_vars>>

InitDesc ==
    /\ path = "raytrace"
    /\ InitFrames(2)
    /\ InitBuild
    /\ InitExt(NoDescriptorSet)

NextDesc ==
    \/ \E crate \in Crates, textures \in 0 .. MaxTextures, fail \in DescriptorSetFails :
          \E garbled \in SUBSET (IF crate = "vulkan_helpers" /\ fail = "none"
                                  THEN Temporaries(crate, "build") ELSE {}) :
             DescriptorSetBuild(crate, textures, fail, garbled)
    \/ \E target \in Targets(ds.crate),
          garbled \in SUBSET Temporaries(ds.crate, "update_render_target") :
          UpdateRenderTarget(target, garbled)

SpecDesc == InitDesc /\ [][NextDesc]_vars

(***************************************************************************)
(* Specification of the teardown.                                          *)
(***************************************************************************)
InitDrop ==
    /\ path = "raytrace"
    /\ InitFrames(2)
    /\ InitBuild
    /\ InitBuffers(<<{"DEVICE_LOCAL"}, {"HOST_VISIBLE", "HOST_COHERENT"}>>)
    /\ InitSetup
    /\ g_inst = NoInstance
    /\ tlas = [transform |-> identity]
    /\ ds = NoDescriptorSet
    /\ \E kind \in {"ray_tracing", "raster"}, shared \in BOOLEAN : td = Built(kind, shared)
    /\ bld = NoBuilder
    /\ mapped = NoMapped
    /\ geom = NoGeometry

NextDrop ==
    \/ \E fail \in BufferLeaks : FailedBufferBuild(fail)
    \/ CreateUserBuffer
    \/ RenderFrame
    \/ GpuFinish
    \/ \E owner \in {"caller", "pipeline", "user_buffer"} : DropOwner(owner)

SpecDrop == InitDrop /\ [][NextDrop]_vars

(***************************************************************************)
(* Specification of the builders.                                          *)
(***************************************************************************)
AllFields == UNION {Fields(b) : b \in Builders}
AllCreations == UNION {Creations(b) : b \in Builders}

InitBld ==
    /\ path = "raytrace"
    /\ InitFrames(2)
    /\ InitBuild
    /\ InitBuffers(<<{"DEVICE_LOCAL"}, {"HOST_VISIBLE", "HOST_COHERENT"}>>)
    /\ InitSetup
    /\ g_inst = NoInstance
    /\ tlas = [transform |-> identity]
    /\ ds = NoDescriptorSet
    /\ td = NoTeardown
    /\ bld = NoBuilder
    /\ mapped = NoMapped
    /\ geom = NoGeometry

NextBld ==
    \/ \E builder \in Builders : NewBuilder(builder)
    \/ \E field \in AllFields : With(field)
    \/ \E fail \in AllCreations \cup {"none"} : Build(fail)

SpecBld == InitBld /\ [][NextBld]_vars

(***************************************************************************)
(* Specification of the pipeline construction.                             *)
(***************************************************************************)
InitB ==
    /\ path = "raytrace"
    /\ InitFrames(2)
    /\ InitBuild
    /\ InitExt(NoDescriptorSet)

\* the largest size a memory-requirement query reports
MaxRequirement == 2
\* what get_acceleration_structure_memory_requirements reports for one structure
MemoryRequirements ==
    [object : 1 .. MaxRequirement, build_scratch : 1 .. MaxRequirement,
     update_scratch : 1 .. MaxRequirement]

NextBuild ==
    \/ \E size \in 1 .. MaxHandleSize, fail \in EndSingleTimeFails : BuildBuffers(size, fail)
    \/ BeginBuildCommands
    \/ \E fail \in ASBuildFails("BOTTOM_LEVEL"), req \in MemoryRequirements :
          BuildBottomLevel(fail, req)
    \/ \E fail \in ASBuildFails("TOP_LEVEL"), req \in MemoryRequirements :
          BuildTopLevel(fail, req)
    \/ \E fail \in EndSingleTimeFails : EndBuildCommands(fail)
    \/ \E fail \in CreatePipelineFails : CreatePipeline(fail)
    \/ \E fail \in ShaderBindingTableFails, hit \in HandleBytes :
          BuildShaderBindingTable(fail, hit)

SpecBuild == InitB /\ [][NextBuild]_vars

(***************************************************************************)
(* Properties of the frame cycle.                                          *)
(***************************************************************************)
\* the calls of the current frame named op, as positions of ev
At(op) == {k \in DOMAIN ev : ev[k].op = op}
\* slot i has a frame submission that has not finished executing
InFlight(i) == \E k \in DOMAIN gpuq : gpuq[k].kind = "frame" /\ gpuq[k].cb = i
\* the last call of ev is a successful queue_present
Presented == ev # <<>> /\ ev[Len(ev)].op = "queue_present"

\* C1: a slot's command buffer is in the recording state only after wait_for_fence on that
\* slot succeeded earlier in the same frame_begin, hence while the slot's fence is signaled
\* and no earlier submission of that command buffer is unfinished; and a frame_begin whose
\* fence wait failed has neither acquired an image nor begun the command buffer.
C1_RecordOnlyAfterFenceWait ==
    /\ \A i \in Slots : command_buffers[i] = "recording" =>
          /\ fences[i]
          /\ ~InFlight(i)
          /\ \E b \in At("begin_command_buffer") :
                /\ ev[b].slot = i
                /\ \E w \in 1 .. (b - 1) : ev[w].op = "wait_for_fence" /\ ev[w].slot = i
    /\ failed_at = "wait_for_fence" =>
          /\ At("acquire_next_image") = {} /\ At("begin_command_buffer") = {}
          /\ acquired = {}
          /\ command_buffers[frame_index] # "recording"

\* C1 witness: slot 0 is being recorded a second time while slot 1's submission is still
\* executing
C1_Witness ==
    /\ frames_count = 2 /\ frame_index = 0
    /\ command_buffers[0] = "recording" /\ InFlight(1)

\* C2: no two unfinished submissions reference the same command buffer, and every frame
\* submission of a slot comes after a successful wait on that slot's fence in the same frame.
C2_NoSharedCommandBufferInFlight ==
    /\ \A p, q \in DOMAIN gpuq :
          (p # q /\ gpuq[p].kind = "frame" /\ gpuq[q].kind = "frame")
             => gpuq[p].cb # gpuq[q].cb
    /\ \A s \in At("queue_submit") :
          \E w \in 1 .. (s - 1) : ev[w].op = "wait_for_fence" /\ ev[w].slot = ev[s].slot

\* C2 witness: frames_count submissions, one per slot, are executing at once
C2_Witness ==
    /\ frames_count >= 2
    /\ Len(gpuq) = frames_count
    /\ \A i \in Slots : InFlight(i)

\* a cycle of frames_count successful frames has just ended
CycleDone ==
    /\ failed_at = "none"
    /\ frame_index = 0
    /\ pc \in {"idle", "updated"}
    /\ Presented

\* C3: in a cycle of frames_count successful frames every slot's fence is waited on exactly
\* once and reset exactly once, and the slot is submitted once; inside a frame the wait
\* precedes the reset and the reset precedes the submission.
C3_FenceWaitedAndResetOncePerCycle ==
    /\ CycleDone => \A i \in Slots : waits[i] = 1 /\ resets[i] = 1 /\ submits[i] = 1
    /\ \A i \in Slots : waits[i] <= 1 /\ resets[i] <= waits[i] /\ submits[i] <= resets[i]
    /\ \A s \in At("queue_submit") :
          \E r \in 1 .. (s - 1) :
             /\ ev[r].op = "reset_fence" /\ ev[r].slot = ev[s].slot
             /\ \E w \in 1 .. (r - 1) : ev[w].op = "wait_for_fence" /\ ev[w].slot = ev[s].slot
    /\ \A op \in {"wait_for_fence", "reset_fence", "queue_submit"} : Cardinality(At(op)) <= 1

\* C3 witness: a cycle of two frames has completed
C3_Witness == CycleDone /\ frames_count = 2 /\ waits[1] = 1

\* C4: frame_index stays inside 0..frames_count-1 and changes only in a successful
\* frame_present, to (frame_index + 1) mod frames_count.
C4_FrameIndexCycles ==
    /\ [](frame_index \in 0 .. (frames_count - 1))
    /\ [][frame_index' # frame_index =>
             /\ pc = "submitted" /\ pc' = "idle"
             /\ frame_index' = (frame_index + 1) % frames_count]_vars

\* C4 witness: the index has wrapped from the last slot of three back to 0
C4_Witness ==
    /\ frames_count = 3 /\ frame_index = 0 /\ pc = "idle"
    /\ Presented /\ ev[Len(ev)].slot = 2

\* C5: the submission of a frame waits, at the color-attachment-output stage, on the
\* semaphore given to that frame's acquire, signals the slot's render-complete semaphore
\* and the slot's fence; queue_present waits on that render-complete semaphore and presents
\* the image index the acquire returned, after the submission (ev[1] is the frame's fence
\* wait, on the frame's slot).
C5_SemaphoreChain ==
    /\ \A s \in At("queue_submit") :
          /\ ev[s].slot = ev[1].slot
          /\ ev[s].fence = ev[1].slot
          /\ ev[s].signal = get_render_complete_semaphore(ev[1].slot)
          /\ \E a \in 1 .. (s - 1) :
                ev[a].op = "acquire_next_image" /\ ev[a].signal = ev[s].wait
    /\ \A k \in DOMAIN gpuq :
          gpuq[k].kind = "frame" => gpuq[k].stage = "COLOR_ATTACHMENT_OUTPUT"
    /\ \A p \in At("queue_present") \cup At("queue_present_err") :
          \E s \in 1 .. (p - 1) :
             /\ ev[s].op = "queue_submit" /\ ev[s].signal = ev[p].wait
             /\ \E a \in 1 .. (s - 1) :
                   ev[a].op = "acquire_next_image" /\ ev[a].img = ev[p].img

\* C5 witness: slot 1 has presented image 2
C5_Witness ==
    /\ Presented
    /\ ev[Len(ev)].slot = 1 /\ ev[Len(ev)].img = 2

\* C6: between frame_begin and the matching frame_present the CPU issues no
\* single-time-command submission and no queue-wait-idle.
C6_NoBlockingInsideFrame ==
    \A k \in DOMAIN ev : ev[k].op \notin {"single_time_submit", "queue_wait_idle"}

(***************************************************************************)
(* Properties of the pipeline construction.                                *)
(***************************************************************************)
IsBuild(k) == cmds[k].op = "cmd_build_acceleration_structure"
\* positions of the build command of structure h
BuildAt(h) == {k \in DOMAIN cmds : IsBuild(k) /\ cmds[k].acc_structure = h}
\* the bottom-level build of h and the barrier following it are among the first n commands
BuiltAndFenced(h, n) ==
    \E b \in BuildAt(h) :
       /\ cmds[b].ty = "BOTTOM_LEVEL"
       /\ b + 1 <= n
       /\ cmds[b + 1].op = "cmd_pipeline_barrier" /\ cmds[b + 1].cb = cmds[b].cb
\* how often command buffer cb was handed to queue_submit
SubmitCount(cb) == Cardinality({k \in DOMAIN submitted : submitted[k] = cb})
\* create_acceleration_structures has returned Ok
StructuresReturned ==
    \/ bpc \in {"structures_built", "pipeline_built", "built"}
    \/ bpc = "failed" /\ build_fail \in CreatePipelineFails \cup ShaderBindingTableFails

\* C7: every retrieval of a bottom-level handle for an instance record, and the top-level
\* build command, come after the build command of each instanced bottom-level structure
\* and after the memory barrier recorded following that build.
C7_TopLevelAfterBottomLevelBarrier ==
    /\ \A r \in DOMAIN handle_reads :
          BuiltAndFenced(handle_reads[r].acc_structure, handle_reads[r].at)
    /\ \A t \in DOMAIN cmds :
          (IsBuild(t) /\ cmds[t].ty = "TOP_LEVEL") =>
             /\ cmds[t].instances # <<>>
             /\ \A k \in DOMAIN cmds[t].instances :
                   BuiltAndFenced(cmds[t].instances[k], t - 1)

\* C7 witness: the top-level build instancing structure 1 has been recorded
C7_Witness ==
    /\ bpc = "top_built"
    /\ handle_reads # <<>>
    /\ \E t \in DOMAIN cmds : IsBuild(t) /\ cmds[t].ty = "TOP_LEVEL" /\ cmds[t].instances = <<1>>

\* C8: all build commands are recorded into one command buffer; each is immediately followed
\* by a memory barrier with ACCELERATION_STRUCTURE_READ|WRITE as source and as destination
\* access; that command buffer is submitted at most once and only with both builds recorded;
\* and once create_acceleration_structures has returned Ok it was submitted exactly once
\* and the queue is idle.
C8_OneCommandBufferBarrierAfterEachBuild ==
    /\ \A k, l \in DOMAIN cmds : (IsBuild(k) /\ IsBuild(l)) => cmds[k].cb = cmds[l].cb
    /\ \A k \in DOMAIN cmds :
          IsBuild(k) =>
             /\ k + 1 \in DOMAIN cmds
             /\ cmds[k + 1].op = "cmd_pipeline_barrier"
             /\ cmds[k + 1].cb = cmds[k].cb
             /\ cmds[k + 1].src_access_mask = ACCELERATION_STRUCTURE_RW
             /\ cmds[k + 1].dst_access_mask = ACCELERATION_STRUCTURE_RW
             /\ SubmitCount(cmds[k].cb) <= 1
             /\ SubmitCount(cmds[k].cb) = 1 =>
                   \A ty \in {"BOTTOM_LEVEL", "TOP_LEVEL"} :
                      \E b \in DOMAIN cmds : IsBuild(b) /\ cmds[b].ty = ty
    /\ StructuresReturned =>
          /\ \E k \in DOMAIN cmds : IsBuild(k) /\ SubmitCount(cmds[k].cb) = 1
          /\ gpuq = <<>>

\* C8 witness: create_acceleration_structures has just returned Ok
C8_Witness ==
    /\ bpc = "structures_built"
    /\ Cardinality({k \in DOMAIN cmds : IsBuild(k)}) = 2

\* C9: when AccelerationStructureBuilder::build returns an error, no build command for the
\* structure has been recorded and the handle the call created is not left undestroyed.
C9_NoPartialBuild ==
    (bpc = "failed" /\ build_fail \in ASBuildFails("TOP_LEVEL") \ {"none"}) =>
       /\ BuildAt(failed_as) = {}
       /\ failed_as \notin as_live

\* C10: every entry stride of the shader binding table is a multiple of 16 and at least the
\* handle size.
C10_StrideAligned ==
    sbt.built =>
       \A e \in {sbt.ray_gen_entry_size, sbt.miss_entry_size, sbt.hit_group_entry_size} :
          e % 16 = 0 /\ e >= prog_id_size

(***************************************************************************)
(* Properties of the shader binding table.                                 *)
(***************************************************************************)
\* the shader groups of the pipeline by kind, as PipelineBuilder::build created them
GroupsOfKind(kind) ==
    {g \in DOMAIN pipeline.shader_groups :
        LET info == pipeline.shader_groups[g]
        IN  CASE kind = "ray_gen"   -> info.ty = "GENERAL" /\ info.stage = "RAYGEN_NV"
              [] kind = "miss"      -> info.ty = "GENERAL" /\ info.stage = "MISS_NV"
              [] kind = "hit_group" -> info.ty = "TRIANGLES_HIT_GROUP"}

\* C11: the regions of the table are contiguous and hold one entry per shader group of
\* their kind: miss_offset = ray_gen_entry_size * ray_gen_count, hit_group_offset =
\* miss_offset + miss_entry_size * miss_count, and the buffer size is hit_group_offset +
\* hit_group_entry_size * hit_group_count.
C11_RegionsContiguous ==
    sbt.built =>
       /\ sbt.miss_offset = sbt.ray_gen_entry_size * Cardinality(GroupsOfKind("ray_gen"))
       /\ sbt.hit_group_offset =
             sbt.miss_offset + sbt.miss_entry_size * Cardinality(GroupsOfKind("miss"))
       /\ sbt.sbt_size =
             sbt.hit_group_offset
               + sbt.hit_group_entry_size * Cardinality(GroupsOfKind("hit_group"))

\* C12: every group index the table builder copies by is below the number of handles
\* fetched, so each copy reads one whole handle inside the fetched storage and writes it
\* inside the mapped table buffer.
C12_CopiesInsideStorage ==
    sbt.built =>
       \A k \in DOMAIN sbt.copies :
          LET c == sbt.copies[k]
          IN  /\ c.shader_index < sbt.handles_fetched
              /\ c.src + c.len <= sbt.storage_len
              /\ c.dst + c.len <= sbt.sbt_size
              /\ c.bytes = Handle(c.shader_index)

(***************************************************************************)
(* Properties of buffer creation.                                          *)
(***************************************************************************)
\* memory type i is allowed by the last call's type filter and has every requested property
Matching(i) ==
    /\ i \in 0 .. (Len(memory_types) - 1)
    /\ (found.type_filter \div (2 ^ i)) % 2 = 1
    /\ found.properties \subseteq memory_types[i + 1]

\* C13: find_memory_type returns the lowest index allowed by the type filter whose memory
\* type has all requested properties; when there is none it returns None and buffer
\* creation fails with a creation error.
C13_FindMemoryTypeLowestMatch ==
    found.called =>
       IF \E i \in 0 .. (Len(memory_types) - 1) : Matching(i)
       THEN /\ Matching(found.index)
            /\ \A j \in 0 .. (found.index - 1) : ~Matching(j)
       ELSE /\ found.index = None
            /\ cpc = "failed"
            /\ create_error = "VertexBufferCreationError"

\* a later memory type was chosen although the filter allows the first one
C13_Witness ==
    /\ found.called
    /\ found.index = 1
    /\ found.type_filter % 2 = 1
    /\ cpc # "failed"

\* C14: when create_buffer returns Ok the destination buffer holds the source bytes, the
\* copy of size bytes has completed, and the staging buffer was destroyed after it.
C14_DestinationEqualsSource ==
    cpc = "returned" =>
       /\ buffers[Destination].content = arg.data
       /\ ~buffers[Destination].destroyed
       /\ buffers[Staging].destroyed
       /\ pending = <<>>

(***************************************************************************)
(* Properties of the context construction.                                 *)
(***************************************************************************)
\* the supported layout transitions with their access masks and pipeline stages
TransitionTable ==
    {[old_layout |-> "UNDEFINED", new_layout |-> "TRANSFER_DST_OPTIMAL",
      src_access_mask |-> {}, dst_access_mask |-> {"TRANSFER_WRITE"},
      src_stage |-> "TOP_OF_PIPE", dst_stage |-> "TRANSFER"],
     [old_layout |-> "UNDEFINED", new_layout |-> "TRANSFER_SRC_OPTIMAL",
      src_access_mask |-> {}, dst_access_mask |-> {"TRANSFER_WRITE"},
      src_stage |-> "TOP_OF_PIPE", dst_stage |-> "TRANSFER"],
     [old_layout |-> "TRANSFER_DST_OPTIMAL", new_layout |-> "SHADER_READ_ONLY_OPTIMAL",
      src_access_mask |-> {"TRANSFER_WRITE"}, dst_access_mask |-> {"SHADER_READ"},
      src_stage |-> "TRANSFER", dst_stage |-> "FRAGMENT_SHADER"],
     [old_layout |-> "UNDEFINED", new_layout |-> "DEPTH_STENCIL_ATTACHMENT_OPTIMAL",
      src_access_mask |-> {},
      dst_access_mask |-> {"DEPTH_STENCIL_ATTACHMENT_READ", "DEPTH_STENCIL_ATTACHMENT_WRITE"},
      src_stage |-> "TOP_OF_PIPE", dst_stage |-> "EARLY_FRAGMENT_TESTS"]}

\* transition_image_layout has run and returned
Transitioned == spc = "depth_resources" \/ setup_error.stage = "depth_resources"

\* C15: for a layout pair of the table transition_image_layout records one barrier with the
\* table's access masks and stages; for any other pair it returns an error and no barrier
\* is recorded or submitted.
C15_TransitionFollowsTable ==
    Transitioned =>
       LET rows == {t \in TransitionTable : /\ t.old_layout = reported.old_layout
                                            /\ t.new_layout = reported.new_layout}
       IN  IF rows # {}
           THEN \/ barriers.outcome = "begin_single_time_commands" /\ barriers.recorded = <<>>
                \/ /\ Len(barriers.recorded) = 1
                   /\ \A t \in rows :
                        LET b == barriers.recorded[1]
                        IN  /\ b.old_layout = t.old_layout /\ b.new_layout = t.new_layout
                            /\ b.src_access_mask = t.src_access_mask
                            /\ b.dst_access_mask = t.dst_access_mask
                            /\ b.src_stage = t.src_stage /\ b.dst_stage = t.dst_stage
           ELSE /\ barriers.outcome \in {"DepthResourcesCreationError",
                                         "begin_single_time_commands"}
                /\ spc = "failed"
                /\ barriers.recorded = <<>>
                /\ ~barriers.submitted

\* a texture upload transition was recorded and submitted
C15_Witness ==
    /\ spc = "depth_resources"
    /\ reported.old_layout = "TRANSFER_DST_OPTIMAL"
    /\ Len(barriers.recorded) = 1
    /\ barriers.submitted

Reported == {reported[k] : k \in DOMAIN reported}

\* C16: the selected present mode is MAILBOX if the driver lists it, otherwise IMMEDIATE if
\* the driver lists it, otherwise FIFO, whatever the order and the duplicates of the list.
C16_PresentModePreference ==
    spc = "present_mode" =>
       present_mode = IF "MAILBOX" \in Reported THEN "MAILBOX"
                      ELSE IF "IMMEDIATE" \in Reported THEN "IMMEDIATE"
                      ELSE "FIFO"

\* IMMEDIATE is listed before MAILBOX
C16_Witness ==
    /\ spc = "present_mode"
    /\ Len(reported) = 2
    /\ reported[1] = "IMMEDIATE"
    /\ reported[2] = "MAILBOX"

\* the formats of the priority list that the driver offers with SRGB-nonlinear colour space
OfferedRequests ==
    {r \in DOMAIN request_formats :
        [format |-> request_formats[r], color_space |-> "SRGB_NONLINEAR"] \in Reported}

CanonicalFormat == [format |-> "B8G8R8A8_UNORM", color_space |-> "SRGB_NONLINEAR"]

\* C17: the selected surface format is the first format of the priority list that the
\* driver offers with SRGB-nonlinear colour space; if none is offered it is the driver's
\* first format, or the canonical default when that format is UNDEFINED; the result never
\* has the UNDEFINED format.
C17_PreferredSurfaceFormat ==
    spc = "surface_format" =>
       /\ IF OfferedRequests # {}
          THEN LET r == CHOOSE x \in OfferedRequests : \A y \in OfferedRequests : x <= y
               IN  surface_format = [format |-> request_formats[r],
                                     color_space |-> "SRGB_NONLINEAR"]
          ELSE IF reported[1].format = "UNDEFINED"
               THEN surface_format = CanonicalFormat
               ELSE surface_format = reported[1]
       /\ surface_format.format # "UNDEFINED"

\* the devices of the enumeration that have every required extension, a surface format, a
\* present mode and anisotropic sampling
HasClaimedSupport(d) ==
    /\ RequiredExtensions \subseteq d.extensions
    /\ d.formats > 0
    /\ d.present_modes > 0
    /\ d.sampler_anisotropy
\* a graphics family with a queue and a family able to present, not necessarily the same
HasQueues(d) ==
    /\ \E k \in DOMAIN d.queue_families :
          d.queue_families[k].graphics /\ d.queue_families[k].queue_count > 0
    /\ \E k \in DOMAIN d.queue_families : d.queue_families[k].present

Lowest(S) == CHOOSE x \in S : \A y \in S : x <= y

\* PhysicalDeviceBuilder::build has returned a device or PhysicalDeviceCreationError
DeviceDecided ==
    \/ spc = "physical_device"
    \/ /\ setup_error.stage = "physical_device"
       /\ setup_error.outcome = "PhysicalDeviceCreationError"

\* C18 as stated: build returns the first device in enumeration order that has every
\* required extension, a surface format, a present mode and anisotropic sampling, and
\* PhysicalDeviceCreationError when no device has all of these.
C18_FirstSuitableDevice ==
    DeviceDecided =>
       LET S == {i \in 0 .. (Len(reported) - 1) : HasClaimedSupport(reported[i + 1])}
       IN  IF S = {} THEN spc = "failed"
           ELSE spc = "physical_device" /\ physical_device = Lowest(S)

\* C18 amended: the device returned is the first one that, in addition, has a graphics
\* queue family with a queue and a queue family able to present to the surface;
\* PhysicalDeviceCreationError is returned when no device has all of these.
C18_FirstSuitableDeviceWithQueues ==
    DeviceDecided =>
       LET S == {i \in 0 .. (Len(reported) - 1) :
                    HasClaimedSupport(reported[i + 1]) /\ HasQueues(reported[i + 1])}
       IN  IF S = {} THEN spc = "failed"
           ELSE spc = "physical_device" /\ physical_device = Lowest(S)

\* the first device has everything but a graphics family and the second one is returned
C18_Witness ==
    /\ spc = "physical_device"
    /\ physical_device = 1
    /\ HasClaimedSupport(reported[1])
    /\ ~HasQueues(reported[1])

\* C19: QueueFamilyBuilder::build returns the lowest index of a family that supports both
\* graphics and presentation, and QueueFamilyCreationError when no single family does.
C19_SingleGraphicsPresentFamily ==
    (spc = "queue_family" \/ setup_error.stage = "queue_family") =>
       LET B == {i \in 0 .. (Len(reported) - 1) :
                    reported[i + 1].graphics /\ reported[i + 1].present}
       IN  IF B = {}
           THEN spc = "failed" /\ setup_error.outcome = "QueueFamilyCreationError"
           ELSE spc = "queue_family" /\ queue_family = Lowest(B)

\* graphics and presentation are supported by different families only: an error
C19_Witness ==
    /\ setup_error.stage = "queue_family"
    /\ setup_error.outcome = "QueueFamilyCreationError"
    /\ \E k \in DOMAIN reported : reported[k].graphics
    /\ \E k \in DOMAIN reported : reported[k].present

(***************************************************************************)
(* Properties of the instance records.                                     *)
(***************************************************************************)
\* the number held by the bits of word at positions from .. to, read from position from
RECURSIVE Field(_, _, _)
Field(word, from, to) ==
    IF from > to THEN 0
    ELSE (IF from \in word THEN 1 ELSE 0) + 2 * Field(word, from + 1, to)

\* C20: instance_id_and_mask = (id mod 2^24) + mask * 2^24 and instance_offset_and_flags =
\* (offset mod 2^24) + (flags mod 2^8) * 2^24: the low 24 bits hold the id or offset, the
\* high 8 bits the mask or flags, and bits of an id or offset above bit 23 are dropped.
C20_InstancePacking ==
    g_inst.made =>
       /\ Field(g_inst.instance_id_and_mask, 0, 23) = g_inst.id % (2 ^ 24)
       /\ Field(g_inst.instance_id_and_mask, 24, 31) = g_inst.mask
       /\ Field(g_inst.instance_offset_and_flags, 0, 23) = g_inst.offset % (2 ^ 24)
       /\ Field(g_inst.instance_offset_and_flags, 24, 31) = g_inst.flags % (2 ^ 8)

\* an id with bits above bit 23 was packed next to a mask of 0
C20_Witness ==
    /\ g_inst.made
    /\ g_inst.id = 16777217
    /\ g_inst.mask = 0
    /\ g_inst.flags = 257

\* C21: the 12 transform floats of the packed record are the first three rows of the
\* instance's 4x4 transform in row-major order: float k is M[k div 4][k mod 4], k in 0..11.
C21_TransformRowMajor ==
    g_inst.made =>
       \A k \in 0 .. 11 : g_inst.transform[k + 1] = tlas.transform[k \div 4][k % 4]

\* the same for the identity transform only
C21_IdentityRowMajor ==
    (g_inst.made /\ tlas.transform = identity) =>
       \A k \in 0 .. 11 : g_inst.transform[k + 1] = identity[k \div 4][k % 4]

(***************************************************************************)
(* Properties of the acceleration-structure buffers.                       *)
(***************************************************************************)
\* position of the first call named op in calls, 0 when it is not there
CallAt(calls, op) ==
    IF \E k \in DOMAIN calls : calls[k] = op
    THEN CHOOSE k \in DOMAIN calls : calls[k] = op /\ \A j \in 1 .. (k - 1) : calls[j] # op
    ELSE 0

\* C22: the scratch buffer is created with the larger of the build and update scratch sizes,
\* the result buffer with the object size, and bind_acceleration_structure_memory of the
\* result buffer's memory comes before cmd_build_acceleration_structure.
C22_BufferSizesAndBindBeforeBuild ==
    as_alloc.acc_structure # 0 =>
       /\ as_alloc.scratch_buffer.created =>
             /\ as_alloc.scratch_buffer.size >= as_alloc.req.build_scratch
             /\ as_alloc.scratch_buffer.size >= as_alloc.req.update_scratch
             /\ as_alloc.scratch_buffer.size \in
                   {as_alloc.req.build_scratch, as_alloc.req.update_scratch}
       /\ as_alloc.result_buffer.created =>
             as_alloc.result_buffer.size = as_alloc.req.object
       /\ CallAt(as_alloc.calls, "cmd_build_acceleration_structure") # 0 =>
             /\ CallAt(as_alloc.calls, "bind_acceleration_structure_memory") # 0
             /\ CallAt(as_alloc.calls, "bind_acceleration_structure_memory")
                   < CallAt(as_alloc.calls, "cmd_build_acceleration_structure")
             /\ as_alloc.memory = "result_buffer"
       /\ (\E k \in DOMAIN cmds : /\ cmds[k].op = "cmd_build_acceleration_structure"
                                   /\ cmds[k].acc_structure = as_alloc.acc_structure)
             => CallAt(as_alloc.calls, "cmd_build_acceleration_structure") # 0

\* a top-level structure was built whose update scratch size exceeds its build scratch size
C22_Witness ==
    /\ as_alloc.acc_structure # 0
    /\ as_alloc.ty = "TOP_LEVEL"
    /\ as_alloc.req.update_scratch > as_alloc.req.build_scratch
    /\ CallAt(as_alloc.calls, "cmd_build_acceleration_structure") # 0
    /\ bpc = "top_built"

(***************************************************************************)
(* Properties of the descriptor sets.                                      *)
(***************************************************************************)
\* the bindings the writes of the last call address
Written == {ds.wds[k].dst_binding : k \in DOMAIN ds.wds}

\* C23: every call of update_render_target writes all bindings 0..6 of the set.
C23_NoPartialUpdate ==
    ds.call = "update_render_target" => Written = 0 .. 6

\* C23 for the DescriptorSet of vulkan_ray_tracing alone
C23_RayTracingWritesAll ==
    (ds.call = "update_render_target" /\ ds.crate = "vulkan_ray_tracing") => Written = 0 .. 6

\* the layout's declaration for a binding
Declared(binding) ==
    CHOOSE l \in {ds.layout[k] : k \in DOMAIN ds.layout} : l.binding = binding

\* C24: the layout declares 0 acceleration structure, 1 storage image, 2 uniform buffer,
\* 3-5 storage buffers, 6 the texture array, and every write addresses a binding with the
\* descriptor type and the descriptor count the layout declares for it.
C24_WritesMatchLayout ==
    ds.built =>
       /\ [k \in DOMAIN ds.layout |-> ds.layout[k].binding] = <<0, 1, 2, 3, 4, 5, 6>>
       /\ [k \in DOMAIN ds.layout |-> ds.layout[k].descriptor_type] =
             <<"ACCELERATION_STRUCTURE_NV", "STORAGE_IMAGE", "UNIFORM_BUFFER",
               "STORAGE_BUFFER", "STORAGE_BUFFER", "STORAGE_BUFFER",
               "COMBINED_IMAGE_SAMPLER">>
       /\ Declared(6).descriptor_count = ds.textures
       /\ \A k \in DOMAIN ds.wds :
             /\ ds.wds[k].dst_binding \in 0 .. 6
             /\ ds.wds[k].descriptor_type = Declared(ds.wds[k].dst_binding).descriptor_type
             /\ ds.wds[k].descriptor_count = Declared(ds.wds[k].dst_binding).descriptor_count

\* C24 for the DescriptorSet of vulkan_ray_tracing alone
C24_RayTracingWritesMatchLayout ==
    ds.crate = "vulkan_ray_tracing" => C24_WritesMatchLayout

\* C25: once trace-rays is recorded in a frame, binding 1 holds the view of the image
\* frame_begin acquired, binding 0 the top-level structure, and bindings 2-5 are written.
C25_TraceRaysOnFreshBindings ==
    (path = "raytrace" /\ At("cmd_trace_rays") # {}) =>
       /\ ds.bound[1] = <<BackBufferView(image_index)>>
       /\ ds.bound[0] = <<"top_level_as">>
       /\ ds.bound[2] = <<"camera_buffer">>
       /\ ds.bound[3] = <<"vertex_buffer">>
       /\ ds.bound[4] = <<"index_buffer">>
       /\ ds.bound[5] = <<"material_buffer">>

\* C25 when every temporary slice is still intact when it is read
C25_IntactSlices ==
    (path = "raytrace" /\ At("cmd_trace_rays") # {}
        /\ \A b \in 0 .. 5 : ds.bound[b] # <<"undefined">>) =>
       /\ ds.bound[1] = <<BackBufferView(image_index)>>
       /\ ds.bound[0] = <<"top_level_as">>
       /\ \A b \in 2 .. 5 : ds.bound[b] # Unwritten

(***************************************************************************)
(* Teardown properties                                                     *)
(***************************************************************************)
Destroyed(obj) == {k \in DOMAIN td.log : td.log[k].op = "destroy" /\ td.log[k].obj = obj}
\* position of the first destroy call on obj in the log, 0 when there is none
Pos(obj) ==
    IF Destroyed(obj) = {} THEN 0
    ELSE CHOOSE k \in Destroyed(obj) : \A j \in Destroyed(obj) : k <= j
\* the descriptor set of vulkan_ray_tracing is freed by the destruction of its pool
End(obj) ==
    IF obj = "descriptor_set" /\ td.kind = "ray_tracing" THEN Pos("descriptor_set_pool")
    ELSE Pos(obj)
Before(derived, base) == Pos(base) > 0 => (End(derived) > 0 /\ End(derived) <= Pos(base))
ObjectOf(field) == IF field = "depth_resources" THEN "depth_image_view" ELSE field
InstanceLevel == {"instance", "surface"}
Leaked == {"failed.buffer", "failed.memory"}

\* the context waits for the queue, then destroys its objects in reverse construction order
ContextOrder ==
    Pos("frame_buffers") > 0 =>
       /\ Pos("frame_buffers") > 1
       /\ td.log[Pos("frame_buffers") - 1].op = "queue_wait_idle"
       /\ \A o \in ContextObjects : Pos(o) >= Pos("frame_buffers")
       /\ \A i, j \in DOMAIN ConstructionOrder :
             (i < j /\ {ConstructionOrder[i], ConstructionOrder[j]} \subseteq ContextObjects
                       \cup {"depth_resources"}) =>
                 /\ Pos(ObjectOf(ConstructionOrder[i])) > 0
                 /\ Pos(ObjectOf(ConstructionOrder[j])) < Pos(ObjectOf(ConstructionOrder[i]))
       /\ Pos("instance") > 0 => Pos("surface") < Pos("instance")

\* C26: when the VulkanContext is dropped the queue is waited idle first, its objects go in
\* reverse construction order, and the device is destroyed only once no object created
\* from it is left, and before the instance.
C26_DeviceDestroyedLast ==
    /\ ContextOrder
    /\ Pos("device") > 0 =>
          /\ td.log[Pos("device")].live \ ({"device"} \cup InstanceLevel) = {}
          /\ Pos("instance") > Pos("device")

\* C26 for the objects some owner holds: the leaked ones apart
C26_OwnedObjectsFirst ==
    /\ ContextOrder
    /\ Pos("device") > 0 =>
          /\ td.log[Pos("device")].live \ ({"device"} \cup InstanceLevel) \subseteq Leaked
          /\ Pos("instance") > Pos("device")

Buffers(kind) ==
    IF kind = "ray_tracing"
    THEN {"sbt_buffer", "top_level_as.scratch_buffer", "top_level_as.result_buffer",
          "top_level_as.instances_buffer", "bottom_level_as.scratch_buffer",
          "bottom_level_as.result_buffer", "vertex_buffer", "index_buffer",
          "material_buffer", "camera_buffer", "clear_buffer"}
    ELSE {"uniform_buffer", "vertex_buffer", "index_buffer", "material_buffer"}

\* handle first, then memory, each once
DestroyedTogether(b) ==
    /\ Cardinality(Destroyed(b \o ".buffer")) <= 1
    /\ Cardinality(Destroyed(b \o ".memory")) <= 1
    /\ Pos(b \o ".memory") = (IF Pos(b \o ".buffer") = 0 THEN 0 ELSE Pos(b \o ".buffer") + 1)

\* C27: a buffer's handle and memory are destroyed together, handle first, each once, and
\* no buffer of a pipeline is destroyed while the frame that uses it is still pending.
C27_NoBufferDestroyedInFlight ==
    /\ \A b \in Buffers(td.kind) \cup {"user_buffer"} : DestroyedTogether(b)
    /\ \A b \in Buffers(td.kind) :
          Pos(b \o ".buffer") > 0 => ~td.log[Pos(b \o ".buffer")].pending

\* C27 for the handle and memory alone, and for the GraphicsPipelineContext
C27_HandleThenMemory ==
    /\ \A b \in Buffers(td.kind) \cup {"user_buffer"} : DestroyedTogether(b)
    /\ td.kind = "raster" => C27_NoBufferDestroyedInFlight

\* what each owner's own Drop and field order guarantee
OwnOrder ==
    /\ Before("depth_image_view", "depth_image")
    /\ Before("depth_image", "depth_image_memory")
    /\ Before("descriptor_set", "descriptor_set_pool")
    /\ Before("pipeline", "pipeline_layout")
    /\ td.kind = "ray_tracing" =>
          /\ Before("top_level_as", "top_level_as.result_buffer.memory")
          /\ Before("bottom_level_as", "bottom_level_as.result_buffer.memory")
          /\ Before("top_level_as", "bottom_level_as")
          /\ Before("descriptor_set", "top_level_as")
          /\ \A b \in {"vertex_buffer", "index_buffer", "material_buffer", "camera_buffer"} :
                Before("descriptor_set", b \o ".buffer")

\* C28: no resource is destroyed while a derived resource that references it exists: view,
\* image, memory; descriptor set, pool and what the set binds; pipeline, layout;
\* acceleration structure, result memory; top-level, bottom-level structure.
C28_DerivedDestroyedFirst ==
    /\ OwnOrder
    /\ td.kind = "ray_tracing" => Before("descriptor_set", "image_views")
    /\ td.kind = "raster" =>
          \A b \in {"uniform_buffer", "material_buffer"} :
             Before("descriptor_set", b \o ".buffer")

\* C28 within one owner, where the derived resource and its base share the Drop
C28_OwnOrderHolds ==
    td.log # <<>> => OwnOrder

(***************************************************************************)
(* Builder properties                                                      *)
(***************************************************************************)
\* the mandatory fields of the builder that were never set: the acceleration structure
\* needs its command buffer and one of the two geometries
Missing ==
    IF bld.builder = "AccelerationStructureBuilder"
    THEN ({"command_buffer"} \ bld.set)
         \cup (IF bld.set \cap {"bottom_level_as", "top_level_as"} = {}
               THEN {"bottom_level_as", "top_level_as"} ELSE {})
    ELSE Fields(bld.builder) \ bld.set

\* C29: build with a mandatory field never set returns a descriptive error and creates no
\* GPU object; it neither panics nor proceeds.
C29_MissingFieldIsAnError ==
    (bld.built /\ Missing # {} /\ bld.fail = "none") =>
       /\ bld.result = "Err"
       /\ bld.message # ""
       /\ bld.created = <<>>

\* C29 as far as it holds: build never returns Ok with a mandatory field missing
C29_NeverOkWhenMissing ==
    (bld.built /\ Missing # {}) => bld.result # "Ok"

(***************************************************************************)
(* Single-use command buffers                                              *)
(***************************************************************************)
Singles == {k \in DOMAIN gpuq : gpuq[k].kind = "single"}
Submissions(c) == {k \in DOMAIN submitted : submitted[k] = c}

\* C30: a single-use command buffer is submitted exactly once, it is freed only after
\* queue_wait_idle returned, and end_single_time_commands returns Ok only when the
\* submitted commands have finished.
C30_SubmitWaitFree ==
    /\ \A c \in DOMAIN cb_states :
          /\ Cardinality(Submissions(c)) <= 1
          /\ cb_states[c] \in {"freed", "pending"} <=> Submissions(c) # {}
    /\ Cardinality(Singles) <= Cardinality({c \in DOMAIN cb_states : cb_states[c] = "pending"})
    /\ (bpc \notin {"start", "failed"} /\ build_fail = "none") => Singles = {}

\* both single-use command buffers of the pipeline construction were submitted and freed
C30_Witness ==
    /\ Len(cb_states) = 2
    /\ \A c \in DOMAIN cb_states : cb_states[c] = "freed" /\ Submissions(c) # {}
    /\ gpuq = <<>>

(***************************************************************************)
(* Mapped memory properties                                                *)
(***************************************************************************)
HostCoherent == {"HOST_VISIBLE", "HOST_COHERENT"}

\* C31: every buffer type is device-local or host-visible and host-coherent, every buffer
\* written through a mapping is of a host-visible, host-coherent type (so the device sees
\* what was written), and what copy_data wrote to a uniform buffer reads back identically.
C31_MappedWritesCoherent ==
    /\ mapped.built => properties(mapped.ty) \in {{"DEVICE_LOCAL"}, HostCoherent}
    /\ mapped.written =>
          /\ properties(mapped.ty) = HostCoherent
          /\ mapped.device = mapped.data
    /\ mapped.read # <<>> => mapped.read = mapped.data

\* C31 for the buffers copy_data is called on, the uniform buffer among them
C31_CopyDataRoundTrip ==
    (mapped.written /\ mapped.ty \in CopyDataTypes) =>
       /\ properties(mapped.ty) = HostCoherent
       /\ mapped.device = mapped.data
       /\ mapped.read # <<>> => mapped.read = mapped.data

(***************************************************************************)
(* Fences                                                                  *)
(***************************************************************************)
\* a submission that will signal the fence of slot i is pending
WillSignal(i) == \E k \in DOMAIN gpuq : gpuq[k].fence = i

\* C32: after any sequence of frame_begin, frame_end and frame_present calls, failing ones
\* included, every slot's fence is signaled or has a pending submission that will signal it.
C32_FenceSignaledOrPending ==
    \A i \in Slots : fences[i] \/ WillSignal(i)

\* C32 for every call but a frame_end whose queue_submit fails; a frame_begin that fails at
\* the image acquisition leaves the fence signaled
C32_FenceKeptButOnSubmitError ==
    /\ failed_at # "queue_submit" => C32_FenceSignaledOrPending
    /\ failed_at = "acquire_next_image" => fences[frame_index]

\* C33: a frame_begin in which no driver call fails returns Ok: it never fails merely
\* because the slot's previous submission is still executing when the wait starts.
C33_FrameBeginNotFailedByPending ==
    [][\A img \in Images : FrameBegin("none", img) => failed_at' = "none"]_vars

\* C33 for a slot with no submission pending, the first frame_begin on each slot included
C33_FrameBeginPassesWhenIdle ==
    [][\A img \in Images :
          (FrameBegin("none", img) /\ ~WillSignal(frame_index)) => failed_at' = "none"]_vars

(***************************************************************************)
(* Order of execution on the queue in a ray-traced frame                   *)
(***************************************************************************)
ToColorAttachment == At("cmd_pipeline_barrier_UNDEFINED_COLOR_ATTACHMENT_OPTIMAL")
ToPresentSrc == At("cmd_pipeline_barrier_COLOR_ATTACHMENT_OPTIMAL_PRESENT_SRC_KHR")
\* the command recorded at position b of ev has been executed: a queue_wait_idle returned
\* after the submission of its single-use command buffer
BarrierExecuted(b) ==
    \E s \in At("single_time_submit"), w \in At("queue_wait_idle") : b < s /\ s < w
\* the commands of the frame command buffer recorded at position t can have executed by
\* position k only if the frame command buffer was submitted in between
FrameCommandExecutedBefore(t, k) == \E q \in At("queue_submit") : t < q /\ q < k

\* C34: in a ray-traced frame the GPU executes UNDEFINED -> COLOR_ATTACHMENT_OPTIMAL, then
\* the frame's trace-rays, then COLOR_ATTACHMENT_OPTIMAL -> PRESENT_SRC_KHR, then the
\* presentation: the transition to PRESENT_SRC_KHR never executes before the trace-rays.
C34_PresentTransitionAfterTraceRays ==
    path = "raytrace" =>
       \A b \in ToPresentSrc : BarrierExecuted(b) =>
          /\ \E a \in ToColorAttachment : a < b /\ BarrierExecuted(a)
          /\ \E t \in At("cmd_trace_rays") : FrameCommandExecutedBefore(t, b)

\* C34 for the rest of the order: the first transition has executed before trace-rays is
\* recorded, both transitions and the submission of the frame precede the presentation
C34_TransitionsBeforePresent ==
    path = "raytrace" =>
       /\ \A t \in At("cmd_trace_rays") :
             \E a \in ToColorAttachment, w \in At("queue_wait_idle") : a < w /\ w < t
       /\ \A p \in At("queue_present") :
             /\ \E b \in ToPresentSrc : b < p /\ BarrierExecuted(b)
             /\ \E t \in At("cmd_trace_rays") : FrameCommandExecutedBefore(t, p)

(***************************************************************************)
(* Writes to the shared descriptor set                                     *)
(***************************************************************************)
\* the last call made is the update_render_target of begin_draw
JustUpdated == ev # <<>> /\ ev[Len(ev)].op = "update_render_target"

\* C35: the descriptor set shared by all slots is never written by update_render_target
\* while a submitted frame command buffer that has it bound is still executing.
C35_NoUpdateWhileFrameInFlight ==
    JustUpdated => \A i \in Slots : ~InFlight(i)

\* update_render_target ran for the frame of slot 1, after the frame of slot 0 was
\* submitted and presented
C35_Witness ==
    /\ JustUpdated
    /\ path = "raytrace"
    /\ frame_index = 1
    /\ submits[0] = 1

(***************************************************************************)
(* Writes to the shared uniform buffer                                     *)
(***************************************************************************)
\* C36: in Renderer::draw_frame the CPU writes the shared uniform buffer only when no
\* earlier submitted frame that reads it is still in flight.
C36_NoUniformWriteWhileFrameInFlight ==
    (path = "raster" /\ pc = "updated") => \A i \in Slots : ~InFlight(i)

\* C37: every single-use command buffer is ended, submitted and freed on every path of the
\* helper that allocated it: once the pipeline construction has returned, with the
\* pipeline or with an error, none is left allocated or in the recording state.
C37_NoCommandBufferLeft ==
    bpc \in {"failed", "built"} => \A c \in DOMAIN cb_states : cb_states[c] = "freed"

\* C37 when the construction succeeds
C37_FreedOnSuccess ==
    bpc = "built" =>
       (cb_states # <<>> /\ \A c \in DOMAIN cb_states : cb_states[c] = "freed")

(***************************************************************************)
(* Device selection and queue family                                       *)
(***************************************************************************)
\* the device PhysicalDeviceBuilder::build returned, as the driver reported it
Selected == reported[physical_device + 1]

\* C38: every physical device PhysicalDeviceBuilder accepts has a queue family that
\* QueueFamilyBuilder accepts.
C38_SelectedDeviceHasQueueFamily ==
    spc = "physical_device" =>
       queue_family_build(Selected.queue_families).outcome = "ok"

\* C38 as far as it holds: the selected device has a graphics family with a queue and a
\* family that presents, possibly two different families
C38_SelectedDeviceHasBothKinds ==
    spc = "physical_device" =>
       /\ \E k \in DOMAIN Selected.queue_families :
             Selected.queue_families[k].graphics /\ Selected.queue_families[k].queue_count > 0
       /\ \E k \in DOMAIN Selected.queue_families : Selected.queue_families[k].present

\* C39: the index type declared in a bottom-level geometry description has the element
\* width of the uploaded indices (32 bits), and index_count is the number of uploaded indices
C39_IndexTypeMatchesUpload ==
    geom.stage \in {"described", "read"} =>
        /\ IndexWidth(geom.description.index_type) = SizeOfU32
        /\ geom.description.index_count = Len(geom.indices)

\* the count half of C39 alone: index_count is the number of uploaded indices, and the
\* buffer holds SizeOfU32 bytes for each of them
C39_IndexCountMatchesUpload ==
    geom.stage \in {"described", "read"} =>
        /\ geom.description.index_count = Len(geom.indices)
        /\ Len(geom.index_buffer) = SizeOfU32 * Len(geom.indices)

\* what the declared width costs: the build reads indices that were never uploaded
C39_BuildReadsUploadedIndices == geom.stage = "read" => geom.read = geom.indices

====
